---- MODULE Spec2Model ----
(***************************************************************************)
(* The API-gateway core of thc_edge: the token bucket (rate_limit.py),     *)
(* the two-tier response cache (storage.py) and the request coordinator    *)
(* with its retry loop and facade (api_client.py).                         *)
(*                                                                         *)
(* Time is discrete.  Every timestamp of the code (last_refill,            *)
(* start_time, created_at) is kept as the time elapsed since it was taken, *)
(* which is what the code computes from it (time.time() - stamp).  Clocks  *)
(* are capped where a larger value cannot change any comparison.           *)
(***************************************************************************)
EXTENDS Integers, Sequences, FiniteSets, TLC

VARIABLES
  tokens,        \* TokenBucket.tokens, in units of 1/TicksPerToken token
  age,           \* time.time() - TokenBucket.last_refill, in ticks
  acq,           \* the callers of TokenBucket.acquire
  budget,        \* history: capacity + tokens credited by time - tokens granted,
                 \* counted up to BudgetCap
  elapsedTotal   \* history: ticks since the concurrent callers called,
                 \* counted up to ElapsedCap (held there when not measured)
VARIABLES
  mem,           \* Cache._memory_cache: key -> (data, created_at, ttl_seconds)
  db,            \* the rows of table api_cache: key -> (response_data, created_at, ttl_seconds)
  sessionOnly,   \* Cache.session_only
  lastPut,       \* history: per key, the last cache_response call and the time since
  store          \* the database file beside table api_cache: whether its tables
                 \* exist, the rows of table player_features, and the outcome
                 \* of the last player-feature operation

VARIABLES
  caller,        \* the callers of APIClient: where each is in its call
  tasks,         \* the tasks created by _make_request (_make_request_internal)
  inflight       \* APIClient._inflight_requests: request key -> task

VARIABLES
  globalBucket,  \* rate_limit._global_bucket: a TokenBucket, or Unmade for None
  buckets,       \* the TokenBucket objects created: capacity, refill period and
                 \* (history) the tokens debited from each
  clients,       \* the rate_limiter of each APIClient constructed, and of each
                 \* other caller of get_global_rate_limiter
  resets         \* history: the calls of reset_global_rate_limiter so far

VARIABLES
  keyCalls,      \* callers of _make_request with query parameters: the arguments
                 \* of each, the request key computed for it, where it is
  keyRegistry,   \* the request keys that APIClient._inflight_requests holds
  keyTasks       \* history: the tasks created for these callers

VARIABLES
  apiKeys,       \* ApiKeyStore._store: user -> (api_key, key_type, expires_at),
                 \* expires_at kept as the time left until it
  expiries,      \* the tasks running ApiKeyStore._expire_later
  keySets        \* history: per user, the last set_key, the time since, and
                 \* whether clear_key was called after it

bucketVars == <<tokens, age>>
acqVars == <<acq, budget, elapsedTotal>>
cacheVars == <<mem, db, sessionOnly, lastPut, store>>
reqVars == <<caller, tasks, inflight>>
limiterVars == <<globalBucket, buckets, clients, resets>>
\* the state of the parts that the bucket, the cache and the request
\* coordinator do not touch
keyVars == <<keyCalls, keyRegistry, keyTasks>>
apiKeyVars == <<apiKeys, expiries, keySets>>
restVars == <<limiterVars, keyVars, apiKeyVars>>
vars == <<tokens, age, acq, budget, elapsedTotal, mem, db, sessionOnly, lastPut, store,
          caller, tasks, inflight, restVars>>

None == "None"

Min(a, b) == IF a <= b THEN a ELSE b
Max(a, b) == IF a >= b THEN a ELSE b

(***************************************************************************)
(* TokenBucket                                                             *)
(***************************************************************************)
\* capacity of the bucket, in tokens (constructor argument)
Capacity == 2
\* 1 / refill_rate, in ticks (constructor argument): one token per TicksPerToken
TicksPerToken == 3
\* asyncio.sleep(0.1) of the polling loop; the bucket's tick is 0.1 s
PollTicks == 1

\* capacity in token units
CapUnits == Capacity * TicksPerToken
\* n tokens in token units
Units(n) == n * TicksPerToken

AcqCallers == {"a1", "a2"}
\* the n of acquire(n, timeout): 0, a token, the capacity and more than it
TokenArgs == 0 .. (Capacity + 1)
\* timeout=None of acquire
NoTimeout == 0 - 1
\* the timeout of acquire(n, timeout), in ticks
TimeoutArgs == {NoTimeout, 1}

\* elapsedTotal stops counting after the time that refills two tokens
ElapsedCap == 2 * TicksPerToken
\* budget stops counting at the capacity: it understates
\* capacity + credited - granted whenever credit arrives at a full budget
BudgetCap == CapUnits

RefilledTwice(elapsed) == 2 * elapsed

\* refilled = elapsed * self.refill_rate: one unit per tick
RefilledUnits(elapsed) == elapsed

RefillUncapped(tok, elapsed) == tok + RefilledUnits(elapsed)

\* self.tokens = min(self.capacity, self.tokens + refilled)
Refill(tok, elapsed) == Min(CapUnits, tok + RefilledUnits(elapsed))

CanDebitUpToCapacity(tok, n) == tok >= Min(CapUnits, Units(n))

\* if self.tokens >= tokens
CanDebit(tok, n) == tok >= Units(n)

DebitNothing(tok, n) == tok

\* self.tokens -= tokens
Debit(tok, n) == tok - Units(n)

LastRefillKept(elapsed) == elapsed

\* self.last_refill = now: the time elapsed since the last refill is 0 again
LastRefillNow(elapsed) == 0

\* debited is history: the token units that the call has taken from the bucket
IdleAcq == [pc |-> "idle", n |-> 0, timeout |-> NoTimeout, waited |-> 0,
            sleepLeft |-> 0, slept |-> FALSE, ret |-> None, debited |-> 0]

\* acquire(n, timeout) is called: start_time = time.time()
AcquireCall(c, n, timeout) ==
  /\ acq[c].pc = "idle"
  /\ acq' = [acq EXCEPT ![c] = [pc |-> "try", n |-> n, timeout |-> timeout,
                                waited |-> 0, sleepLeft |-> 0,
                                slept |-> FALSE, ret |-> None, debited |-> 0]]
  /\ UNCHANGED <<tokens, age, budget, elapsedTotal>>
  /\ UNCHANGED <<cacheVars, reqVars, restVars>>

TimedOutEarly(a) == a.timeout # NoTimeout /\ a.waited >= a.timeout

\* elapsed_total > timeout
TimedOut(a) == a.timeout # NoTimeout /\ a.waited > a.timeout

\* acquire has returned r
Returned(a, r) ==
  [IdleAcq EXCEPT !.n = a.n, !.timeout = a.timeout, !.ret = r, !.debited = a.debited]

\* One iteration of the loop of acquire: the critical section (refill, then
\* debit or not), then the timeout check, up to the await of the sleep.
\* Nothing in it awaits, so the scheduler runs it as one step.
AcquireStep(c) ==
  /\ acq[c].pc = "try"
  /\ age' = LastRefillNow(age)
  /\ LET t == Refill(tokens, age)
         a == acq[c]
     IN IF CanDebit(t, a.n)
        THEN /\ tokens' = Debit(t, a.n)
             /\ budget' = budget - Units(a.n)
             /\ acq' = [acq EXCEPT ![c] =
                         Returned([a EXCEPT !.debited = @ + (t - Debit(t, a.n))], "True")]
        ELSE /\ tokens' = t
             /\ budget' = budget
             /\ IF TimedOut(a)
                THEN acq' = [acq EXCEPT ![c] = Returned(a, "False")]
                ELSE acq' = [acq EXCEPT ![c].pc = "sleep",
                                        ![c].sleepLeft = PollTicks,
                                        ![c].slept = TRUE]
  /\ UNCHANGED elapsedTotal
  /\ UNCHANGED <<cacheVars, reqVars, restVars>>

\* the sleep of the polling loop is over
AcquireWake(c) ==
  /\ acq[c].pc = "sleep"
  /\ acq[c].sleepLeft = 0
  /\ acq' = [acq EXCEPT ![c].pc = "try"]
  /\ UNCHANGED <<tokens, age, budget, elapsedTotal>>
  /\ UNCHANGED <<cacheVars, reqVars, restVars>>

\* the clocks of the acquire callers after d ticks
AcqAfter(d) ==
  [c \in DOMAIN acq |->
     [acq[c] EXCEPT
        !.waited = IF acq[c].pc = "idle" \/ acq[c].timeout = NoTimeout THEN 0
                   ELSE Min(@ + d, acq[c].timeout + 1),
        !.sleepLeft = Max(0, @ - d)]]

(***************************************************************************)
(* Cache (storage.py).  Its clock ticks in seconds; an entry's created_at  *)
(* is kept as its age, time.time() - created_at, counted up to ttl + 1.    *)
(***************************************************************************)
\* Config.CACHE_TTL_SECONDS, the configured default ttl, in ticks
DefaultTTL == 2

\* (player_id, endpoint) pairs
\* the keys of the runs on the cache alone
TierKeys == {"kA", "kB"}
\* the keys (subject, operation) of the cache: fetch_player_stats of two
\* players, fetch_faction_members, fetch_faction_attacks, fetch_user_bars
CacheKeys == TierKeys \cup {"kMembers", "kAttacks", "kBars", "kReports", "kUserStats"}

\* the empty document {}, a document of a JSON response, and a dict that JSON
\* does not give back as it was (keys that are not strings)
Payloads == {"{}", "doc", "pydict"}

\* json.dumps(data)
JsonDumps(d) ==
  CASE d = "{}" -> "'{}'"
    [] d = "doc" -> "'doc'"
    [] d = "pydict" -> "'jsdict'"
    [] d = "jsdict" -> "'jsdict'"
    [] d = "attacks_a" -> "'attacks_a'"
    [] d = "attacks_b" -> "'attacks_b'"
    [] d = "stats_of_K1" -> "'stats_of_K1'"
    [] d = "stats_of_K2" -> "'stats_of_K2'"
    [] d = "api_error" -> "'api_error'"

\* json.loads(response_data)
JsonLoads(t) ==
  CASE t = "'{}'" -> "{}"
    [] t = "'doc'" -> "doc"
    [] t = "'jsdict'" -> "jsdict"
    [] t = "'attacks_a'" -> "attacks_a"
    [] t = "'attacks_b'" -> "attacks_b"
    [] t = "'stats_of_K1'" -> "stats_of_K1"
    [] t = "'stats_of_K2'" -> "stats_of_K2"
    [] t = "'api_error'" -> "api_error"

\* ttl_seconds=None of cache_response
NoTTL == 0 - 1
\* the ttl_seconds of cache_response(player_id, endpoint, data, ttl_seconds)
TTLArgs == {NoTTL, 0, 1}

NoEntry == [present |-> FALSE, data |-> None, age |-> 0, ttl |-> 0]
Entry(d, a, t) == [present |-> TRUE, data |-> d, age |-> a, ttl |-> t]
EmptyTier == [k \in CacheKeys |-> NoEntry]

TtlAsPassed(T) == IF T = NoTTL THEN DefaultTTL ELSE T

\* ttl = ttl_seconds or Config.CACHE_TTL_SECONDS
TtlOrDefault(T) == IF T = NoTTL \/ T = 0 THEN DefaultTTL ELSE T

\* elapsed <= ttl_seconds (the row is expired when elapsed > ttl_seconds)
Live(e) == e.age <= e.ttl

\* the entries of a tier d ticks later
Aged(tier, d) ==
  [k \in CacheKeys |->
     IF tier[k].present
     THEN [tier[k] EXCEPT !.age = Min(@ + d, tier[k].ttl + 1)]
     ELSE tier[k]]

\* a get that promotes a durable row as an entry created now
GetPromotingAfresh(m, d, so, k) ==
  LET m1 == IF m[k].present /\ ~Live(m[k]) THEN [m EXCEPT ![k] = NoEntry] ELSE m
  IN IF m[k].present /\ Live(m[k])
     THEN [val |-> m[k].data, mem |-> m, db |-> d]
     ELSE IF so \/ ~d[k].present
     THEN [val |-> None, mem |-> m1, db |-> d]
     ELSE IF ~Live(d[k])
     THEN [val |-> None, mem |-> m1, db |-> [d EXCEPT ![k] = NoEntry]]
     ELSE [val |-> JsonLoads(d[k].data),
           mem |-> [m1 EXCEPT ![k] = Entry(JsonLoads(d[k].data), 0, d[k].ttl)],
           db |-> d]

GetWithoutPromotion(m, d, so, k) ==
  LET m1 == IF m[k].present /\ ~Live(m[k]) THEN [m EXCEPT ![k] = NoEntry] ELSE m
  IN IF m[k].present /\ Live(m[k])
     THEN [val |-> m[k].data, mem |-> m, db |-> d]
     ELSE IF so \/ ~d[k].present
     THEN [val |-> None, mem |-> m1, db |-> d]
     ELSE IF ~Live(d[k])
     THEN [val |-> None, mem |-> m1, db |-> [d EXCEPT ![k] = NoEntry]]
     ELSE [val |-> JsonLoads(d[k].data), mem |-> m1, db |-> d]

\* get_cached_response(player_id, endpoint): the value returned (None on a
\* miss) and the two tiers after the call
GetCachedResponse(m, d, so, k) ==
  LET m1 == IF m[k].present /\ ~Live(m[k]) THEN [m EXCEPT ![k] = NoEntry] ELSE m
  IN IF m[k].present /\ Live(m[k])
     THEN [val |-> m[k].data, mem |-> m, db |-> d]
     ELSE IF so \/ ~d[k].present
     THEN [val |-> None, mem |-> m1, db |-> d]
     ELSE IF ~Live(d[k])
     THEN [val |-> None, mem |-> m1, db |-> [d EXCEPT ![k] = NoEntry]]
     ELSE [val |-> JsonLoads(d[k].data),
           mem |-> [m1 EXCEPT ![k] = Entry(JsonLoads(d[k].data), d[k].age, d[k].ttl)],
           db |-> d]

\* cache_response(player_id, endpoint, data, ttl_seconds): the two tiers
\* after the call; skew is the time between the two time.time() of the call
CacheResponse(m, d, so, k, data, T, skew) ==
  LET ttl == TtlOrDefault(T)
  IN [mem |-> [Aged(m, skew) EXCEPT ![k] = Entry(data, Min(skew, ttl + 1), ttl)],
      db |-> IF so THEN d
             ELSE [Aged(d, skew) EXCEPT ![k] = Entry(JsonDumps(data), 0, ttl)]]

DeleteFromMemory(m, d, so, k) == [mem |-> [m EXCEPT ![k] = NoEntry], db |-> d]

\* delete_cached_response(player_id, endpoint)
DeleteCachedResponse(m, d, so, k) ==
  [mem |-> [m EXCEPT ![k] = NoEntry],
   db |-> IF so THEN d ELSE [d EXCEPT ![k] = NoEntry]]

\* a sweep of the durable tier alone
ClearDurableOnly(m, d, so) ==
  [mem |-> m,
   db |-> IF so THEN d
          ELSE [k \in CacheKeys |-> IF d[k].present /\ d[k].age > d[k].ttl
                                    THEN NoEntry ELSE d[k]]]

ClearNotYoung(m, d, so) ==
  [mem |-> [k \in CacheKeys |-> IF m[k].present /\ m[k].age >= m[k].ttl
                                 THEN NoEntry ELSE m[k]],
   db |-> IF so THEN d
          ELSE [k \in CacheKeys |-> IF d[k].present /\ d[k].age >= d[k].ttl
                                    THEN NoEntry ELSE d[k]]]

\* clear_expired()
ClearExpired(m, d, so) ==
  [mem |-> [k \in CacheKeys |-> IF m[k].present /\ m[k].age > m[k].ttl
                                 THEN NoEntry ELSE m[k]],
   db |-> IF so THEN d
          ELSE [k \in CacheKeys |-> IF d[k].present /\ d[k].age > d[k].ttl
                                    THEN NoEntry ELSE d[k]]]

\* history of the calls of cache_response, per key
NoPut == [valid |-> FALSE, data |-> None, T |-> 0, since |-> 0, gone |-> FALSE,
          swept |-> FALSE]
\* history of a key deleted since its last cache_response
GonePut == [NoPut EXCEPT !.gone = TRUE]
PutsAged(d) ==
  [k \in CacheKeys |->
     IF lastPut[k].valid
     THEN [lastPut[k] EXCEPT !.since = Min(@ + d, TtlAsPassed(lastPut[k].T) + 1)]
     ELSE lastPut[k]]

\* a caller calls get_cached_response
CacheGet(k) ==
  /\ LET r == GetCachedResponse(mem, db, sessionOnly, k)
     IN /\ mem' = r.mem
        /\ db' = r.db
  /\ UNCHANGED <<sessionOnly, lastPut, store, restVars>>
  /\ UNCHANGED <<bucketVars, acqVars, reqVars>>

\* a caller calls cache_response; without the durable tier no time is taken
CachePut(k, data, T) ==
  /\ \E skew \in (IF sessionOnly THEN {0} ELSE {0, 1}) :
       LET r == CacheResponse(mem, db, sessionOnly, k, data, T, skew)
       IN /\ mem' = r.mem
          /\ db' = r.db
          /\ lastPut' = [PutsAged(skew) EXCEPT
                           ![k] = [valid |-> TRUE, data |-> data, T |-> T, since |-> 0,
                                   gone |-> FALSE, swept |-> FALSE]]
  /\ UNCHANGED <<sessionOnly, store, restVars>>
  /\ UNCHANGED <<bucketVars, acqVars, reqVars>>

\* a caller calls delete_cached_response
CacheDelete(k) ==
  /\ LET r == DeleteCachedResponse(mem, db, sessionOnly, k)
     IN mem' = r.mem /\ db' = r.db
  /\ lastPut' = [lastPut EXCEPT ![k] = GonePut]
  /\ UNCHANGED <<sessionOnly, store, restVars>>
  /\ UNCHANGED <<bucketVars, acqVars, reqVars>>

\* a caller calls clear_expired
CacheClearExpired ==
  /\ LET r == ClearExpired(mem, db, sessionOnly)
     IN /\ mem' = r.mem
        /\ db' = r.db
        /\ lastPut' = [k \in CacheKeys |->
                         IF r.mem[k] # mem[k] \/ r.db[k] # db[k]
                         THEN [lastPut[k] EXCEPT !.swept = TRUE]
                         ELSE lastPut[k]]
  /\ UNCHANGED <<sessionOnly, store, restVars>>
  /\ UNCHANGED <<bucketVars, acqVars, reqVars>>

(***************************************************************************)
(* The player features of Cache: table player_features of the database     *)
(***************************************************************************)
Players == {"p1"}

\* the database file: its tables exist or not, the player_ids of the rows of
\* player_features; ret is what the last player-feature operation returned
\* or raised, io whether it read or wrote the database
NewStore(tables, rows) == [tables |-> tables, rows |-> rows, ret |-> None, io |-> "none"]

\* save_player_features(player_id, ...): connect, INSERT OR REPLACE, commit;
\* the INSERT raises sqlite3.OperationalError when the table does not exist
SavePlayerFeatures(p) ==
  /\ store' = IF store.tables
              THEN [store EXCEPT !.rows = @ \cup {p}, !.ret = None, !.io = "write"]
              ELSE [store EXCEPT !.ret = "OperationalError", !.io = "write"]
  /\ UNCHANGED <<mem, db, sessionOnly, lastPut, restVars>>
  /\ UNCHANGED <<bucketVars, acqVars, reqVars>>

\* get_player_features(player_id): connect, SELECT, the row found or None
GetPlayerFeatures(p) ==
  /\ store' = IF store.tables
              THEN [store EXCEPT !.ret = IF p \in store.rows THEN "features" ELSE None,
                                 !.io = "read"]
              ELSE [store EXCEPT !.ret = "OperationalError", !.io = "read"]
  /\ UNCHANGED <<mem, db, sessionOnly, lastPut, restVars>>
  /\ UNCHANGED <<bucketVars, acqVars, reqVars>>

\* get_all_player_ids(): connect, SELECT DISTINCT player_id
GetAllPlayerIds ==
  /\ store' = IF store.tables
              THEN [store EXCEPT !.ret = "player_ids", !.io = "read"]
              ELSE [store EXCEPT !.ret = "OperationalError", !.io = "read"]
  /\ UNCHANGED <<mem, db, sessionOnly, lastPut, restVars>>
  /\ UNCHANGED <<bucketVars, acqVars, reqVars>>

(***************************************************************************)
(* APIClient (api_client.py).  Its clock ticks in seconds.  A task waiting *)
(* in wait_until_available is blocked until the bucket holds a token: the  *)
(* polls that find none change nothing but the stamp of the refill.        *)
(***************************************************************************)
\* Config.HTTP_RETRIES
HTTP_RETRIES == 3
\* Config.HTTP_BACKOFF_FACTOR, taken whole so that a backoff sleep is a
\* whole number of ticks
BackoffFactor == 2
\* int(resp.headers.get("Retry-After", 60))
DefaultRetryAfter == 60
\* the tasks a run creates
MaxTasks == 2
ReqCallers == {"c1", "c2", "c3"}
TaskIds == 1 .. MaxTasks
NoTask == 0

\* the facade operations: fetch_player_stats of two players
Ops == {"stats_p1", "stats_p2"}
\* fetch_faction_members, fetch_faction_attacks and fetch_user_bars: the
\* operations that pass a ttl_seconds of their own
TtlOps == {"members", "attacks", "bars"}
\* (player_id, "player_stats"), (faction_id, "faction_members"),
\* ("faction", "attacks"), ("self", "bars")
CacheKeyOf(op) ==
  CASE op = "stats_p1" -> "kA"
    [] op = "stats_p2" -> "kB"
    [] op = "members" -> "kMembers"
    [] op = "attacks" -> "kAttacks"
    [] op = "attacks_b" -> "kAttacks"
    [] op = "bars" -> "kBars"
    [] op = "reports" -> "kReports"
    [] op = "user_stats" -> "kUserStats"
\* the request keys of the runs on the coordinator alone
CoordKeys == {"rA", "rB"}
\* _request_key("GET", endpoint, None) of the operation's endpoint
RequestKeys == CoordKeys \cup {"rMembers", "rAttacks", "rAttacksB", "rBars", "rUserStats"}
RequestKeyOf(op) ==
  CASE op = "stats_p1" -> "rA"
    [] op = "stats_p2" -> "rB"
    [] op = "members" -> "rMembers"
    [] op = "attacks" -> "rAttacks"
    [] op = "attacks_b" -> "rAttacksB"
    [] op = "bars" -> "rBars"
    [] op = "user_stats" -> "rUserStats"
\* ttl_seconds=86400 of fetch_faction_members, 300 of fetch_faction_attacks
\* and 30 of fetch_user_bars, in ticks; the values are told apart, they are
\* not to scale
MembersTTL == 4
AttacksTTL == 3
BarsTTL == 1
\* the ttl_seconds the operation passes to cache_response
TtlOf(op) ==
  CASE op = "members" -> MembersTTL
    [] op = "attacks" -> AttacksTTL
    [] op = "attacks_b" -> AttacksTTL
    [] op = "reports" -> AttacksTTL
    [] op = "bars" -> BarsTTL
    [] OTHER -> NoTTL

\* retries=None of _make_request
NoRetries == 0 - 1
\* the retries of _make_request(method, endpoint, params, retries)
RetriesArgs == {NoRetries, 0, 1}

RetriesAsPassed(r) == IF r = NoRetries THEN HTTP_RETRIES ELSE r

\* retries = retries or Config.HTTP_RETRIES
RetriesOrDefault(r) == IF r = NoRetries \/ r = 0 THEN HTTP_RETRIES ELSE r

RECURSIVE Pow(_, _)
Pow(b, e) == IF e = 0 THEN 1 ELSE b * Pow(b, e - 1)

BackoffFlat(attempt) == 1

\* backoff_factor ** attempt
Backoff(attempt) == Pow(BackoffFactor, attempt)

\* no Retry-After header in the response
NoHeader == 0 - 1
RetryAfterHeaders == {NoHeader, 0, 2}

RetryAfterZero(h) == IF h = NoHeader THEN 0 ELSE h

\* retry_after = int(resp.headers.get("Retry-After", 60))
RetryAfter(h) == IF h = NoHeader THEN DefaultRetryAfter ELSE h

\* the bodies of the 2xx responses: the empty document and another
NetPayloads == {"{}", "doc"}

\* what a network attempt can end in: a status (with the body of a 2xx, the
\* Retry-After of a 429), a connection error (aiohttp.ClientError) or the
\* timeout of the request (asyncio.TimeoutError)
Responses ==
  {[st |-> "200", data |-> d, h |-> NoHeader] : d \in NetPayloads}
  \cup {[st |-> "429", data |-> None, h |-> h] : h \in RetryAfterHeaders}
  \cup {[st |-> x, data |-> None, h |-> NoHeader] : x \in {"500", "404", "conn", "timeout"}}

NoRes == [kind |-> "none", data |-> None]
Ok(d) == [kind |-> "ok", data |-> d]
Fail(kind, what) == [kind |-> kind, data |-> what]

NoTaskRec ==
  [pc |-> "none", rk |-> None, attempt |-> 0, retries |-> 0, arg |-> NoRetries,
   sleepLeft |-> 0, res |-> NoRes, nets |-> 0, last |-> "none", wait |-> 0,
   since |-> 0, onlyConn |-> TRUE, dup |-> FALSE, nap |-> 0, at |-> 0,
   debited |-> 0]

\* asyncio.create_task(self._make_request_internal(method, endpoint, params, retries));
\* dup records that a handle of the key was registered when the task was created
NewTask(rk, arg, dup) ==
  [NoTaskRec EXCEPT !.pc = "acquire", !.rk = rk, !.arg = arg,
                    !.retries = RetriesOrDefault(arg), !.dup = dup]

NoCall == [pc |-> "idle", op |-> None, rk |-> None, task |-> NoTask,
           owner |-> FALSE, res |-> NoRes, live |-> None, cancelled |-> FALSE]

\* the finished tasks that nothing refers to once caller c makes a new call:
\* no handle of the registry and no other caller
Unreferenced(c) ==
  {t \in TaskIds :
     /\ tasks[t].pc = "done"
     /\ \A k \in RequestKeys : inflight[k] # t
     /\ \A o \in ReqCallers \ {c} : caller[o].task # t}

\* the tasks when caller c makes a new call: the unreferenced ones are gone
TasksLeft(c) == [t \in TaskIds |-> IF t \in Unreferenced(c) THEN NoTaskRec ELSE tasks[t]]

\* the identities a task created for caller c can take
FreeIds(c) == {t \in TaskIds : TasksLeft(c)[t].pc = "none"}
FirstFree(c) == CHOOSE t \in FreeIds(c) : \A u \in FreeIds(c) : t <= u

InflightMiss(rk) == NoTask

\* inflight = APIClient._inflight_requests.get(request_key)
InflightGet(rk) == inflight[rk]

AwaitNothing(t) == NoRes

\* await inflight / await task: the result or the exception of the task
AwaitResult(t) == tasks[t].res

\* if cached:
Truthy(v) == v # None /\ v # "{}"

CacheWhateverCame(m, d, op, res) ==
  IF op # None
  THEN CacheResponse(m, d, sessionOnly, CacheKeyOf(op),
                     IF res.kind = "ok" THEN res.data ELSE "doc", TtlOf(op), 0)
  ELSE [mem |-> m, db |-> d]

\* the cache after a facade operation got res from _make_request:
\* self.cache.cache_response(player_id, "player_stats", response)
CacheAfter(m, d, op, res) ==
  IF op # None /\ res.kind = "ok"
  THEN CacheResponse(m, d, sessionOnly, CacheKeyOf(op), res.data, TtlOf(op), 0)
  ELSE [mem |-> m, db |-> d]

PutsAfter(op, res) ==
  IF op # None /\ res.kind = "ok"
  THEN [lastPut EXCEPT ![CacheKeyOf(op)] =
          [valid |-> TRUE, data |-> res.data, T |-> TtlOf(op), since |-> 0,
           gone |-> FALSE, swept |-> FALSE]]
  ELSE lastPut

\* _make_request up to its await, called with the tiers m and d of the cache
MakeRequestFrom(c, op, rk, arg, m, d, live) ==
  LET reg == InflightGet(rk)
      rec == [NoCall EXCEPT !.op = op, !.rk = rk, !.live = live]
  IN IF reg # NoTask /\ tasks[reg].pc = "done"
     THEN LET res == AwaitResult(reg)
              ca == CacheAfter(m, d, op, res)
          IN /\ caller' = [caller EXCEPT ![c] = [rec EXCEPT !.task = reg, !.res = res]]
             /\ mem' = ca.mem
             /\ db' = ca.db
             /\ lastPut' = PutsAfter(op, res)
             /\ tasks' = TasksLeft(c)
             /\ UNCHANGED inflight
     ELSE IF reg # NoTask
     THEN /\ caller' = [caller EXCEPT ![c] = [rec EXCEPT !.pc = "await", !.task = reg]]
          /\ mem' = m
          /\ db' = d
          /\ tasks' = TasksLeft(c)
          /\ UNCHANGED <<lastPut, inflight>>
     ELSE /\ FreeIds(c) # {}
          /\ tasks' = [TasksLeft(c) EXCEPT ![FirstFree(c)] = NewTask(rk, arg, inflight[rk] # NoTask)]
          /\ inflight' = [inflight EXCEPT ![rk] = FirstFree(c)]
          /\ caller' = [caller EXCEPT ![c] = [rec EXCEPT !.pc = "await", !.task = FirstFree(c),
                                                         !.owner = TRUE]]
          /\ mem' = m
          /\ db' = d
          /\ UNCHANGED lastPut

\* a caller calls _make_request(method, endpoint, params, retries)
MakeRequest(c, rk, arg) ==
  /\ caller[c].pc = "idle"
  /\ MakeRequestFrom(c, None, rk, arg, mem, db, None)
  /\ UNCHANGED <<bucketVars, acqVars, sessionOnly, store, restVars>>

\* the url of _make_full_url_request, which has no request key
FullUrl == "url"

\* a caller calls _make_full_url_request(method, url, params, headers, retries):
\* the same loop as _make_request_internal, run by the caller itself, with
\* no handle registered
MakeFullUrlRequest(c, arg) ==
  /\ caller[c].pc = "idle"
  /\ FreeIds(c) # {}
  /\ tasks' = [TasksLeft(c) EXCEPT ![FirstFree(c)] = NewTask(FullUrl, arg, FALSE)]
  /\ caller' = [caller EXCEPT ![c] =
                  [NoCall EXCEPT !.pc = "await", !.rk = FullUrl, !.task = FirstFree(c)]]
  /\ UNCHANGED <<bucketVars, acqVars, cacheVars, inflight, restVars>>

\* a caller calls fetch_faction_reports_v1(faction_id, from_timestamp): the
\* entry ("faction", cache_key) is looked up and, without a truthy one,
\* _make_full_url_request("GET", url, params=params) is awaited
FetchFactionReportsV1(c) ==
  /\ caller[c].pc = "idle"
  /\ LET r == GetCachedResponse(mem, db, sessionOnly, CacheKeyOf("reports"))
     IN /\ mem' = r.mem
        /\ db' = r.db
        /\ IF Truthy(r.val)
           THEN /\ caller' = [caller EXCEPT ![c] =
                                [NoCall EXCEPT !.op = "reports", !.rk = FullUrl,
                                               !.res = Ok(r.val), !.live = r.val]]
                /\ tasks' = TasksLeft(c)
           ELSE /\ FreeIds(c) # {}
                /\ tasks' = [TasksLeft(c) EXCEPT
                               ![FirstFree(c)] = NewTask(FullUrl, NoRetries, FALSE)]
                /\ caller' = [caller EXCEPT ![c] =
                                [NoCall EXCEPT !.pc = "await", !.op = "reports",
                                               !.rk = FullUrl, !.task = FirstFree(c),
                                               !.live = r.val]]
  /\ UNCHANGED <<bucketVars, acqVars, sessionOnly, store, lastPut, inflight, restVars>>

\* a caller calls fetch_player_stats(player_id)
FacadeFetch(c, op) ==
  /\ caller[c].pc = "idle"
  /\ LET r == GetCachedResponse(mem, db, sessionOnly, CacheKeyOf(op))
     IN IF Truthy(r.val)
        THEN /\ caller' = [caller EXCEPT ![c] =
                             [NoCall EXCEPT !.op = op, !.rk = RequestKeyOf(op),
                                            !.res = Ok(r.val), !.live = r.val]]
             /\ mem' = r.mem
             /\ db' = r.db
             /\ tasks' = TasksLeft(c)
             /\ UNCHANGED <<lastPut, inflight>>
        ELSE MakeRequestFrom(c, op, RequestKeyOf(op), NoRetries, r.mem, r.db, r.val)
  /\ UNCHANGED <<bucketVars, acqVars, sessionOnly, store, restVars>>

\* asyncio.CancelledError raised in a cancelled coroutine
Cancelled == Fail("CancelledError", "cancelled")

NotPopped(rk) == inflight

\* finally: APIClient._inflight_requests.pop(request_key, None)
Popped(rk) == [inflight EXCEPT ![rk] = NoTask]

\* the task a caller awaits is done: the await returns or raises, the owner
\* pops the handle (finally), a facade operation caches the response
CallerResume(c) ==
  /\ caller[c].pc = "await"
  /\ tasks[caller[c].task].pc = "done"
  /\ LET res == IF caller[c].cancelled THEN Cancelled ELSE AwaitResult(caller[c].task)
         ca == CacheAfter(mem, db, caller[c].op, res)
     IN /\ caller' = [caller EXCEPT ![c].pc = "idle", ![c].res = res]
        /\ mem' = ca.mem
        /\ db' = ca.db
        /\ lastPut' = PutsAfter(caller[c].op, res)
  /\ inflight' = IF caller[c].owner THEN Popped(caller[c].rk) ELSE inflight
  /\ UNCHANGED <<bucketVars, acqVars, sessionOnly, store, tasks, restVars>>

\* the task is suspended in wait_until_available, in the network call or in
\* a sleep
Pending(tk) == tk.pc \in {"acquire", "network", "sleep"}

\* a caller suspended in `await inflight` or `await task` is cancelled: the
\* cancellation goes to the awaited task, which is not shielded, and a task
\* that is pending ends with CancelledError at its suspension point (its
\* handlers catch Exception only); the caller raises CancelledError when it
\* runs next
CancelCaller(c) ==
  /\ caller[c].pc = "await"
  /\ ~caller[c].cancelled
  /\ caller' = [caller EXCEPT ![c].cancelled = TRUE]
  /\ tasks' = IF Pending(tasks[caller[c].task])
              THEN [tasks EXCEPT ![caller[c].task] =
                      [tasks[caller[c].task] EXCEPT !.pc = "done", !.res = Cancelled,
                                                    !.sleepLeft = 0]]
              ELSE tasks
  /\ UNCHANGED <<bucketVars, acqVars, cacheVars, inflight, restVars>>

\* await self.rate_limiter.wait_until_available(1) returns
TaskAcquire(t) ==
  /\ tasks[t].pc = "acquire"
  /\ CanDebit(Refill(tokens, age), 1)
  /\ tokens' = Debit(Refill(tokens, age), 1)
  /\ age' = LastRefillNow(age)
  /\ budget' = budget - Units(1)
  /\ tasks' = [tasks EXCEPT ![t].pc = "network",
                            ![t].debited = @ + (Refill(tokens, age) - tokens')]
  /\ UNCHANGED <<acq, elapsedTotal, cacheVars, caller, inflight, restVars>>

\* the task ends with res
Done(tk, res) == [tk EXCEPT !.pc = "done", !.res = res, !.sleepLeft = 0]

\* the sleep of the task is over
Slept(tk) == tk.sleepLeft = 0

\* await asyncio.sleep(d); attempt += 1; continue
Sleeping(tk, d) == [tk EXCEPT !.pc = "sleep", !.sleepLeft = d]

\* except aiohttp.ClientError: sleep and go on while attempt < retries,
\* raise RuntimeError otherwise
OnClientError(tk) ==
  IF tk.attempt < tk.retries
  THEN Sleeping(tk, Backoff(tk.attempt))
  ELSE Done(tk, Fail("RuntimeError", "failed after attempts"))

\* the task after the response r to its network attempt.  A status >= 400
\* that is not slept on reaches resp.raise_for_status(), whose
\* ClientResponseError is an aiohttp.ClientError.
OnResponse(tk, r) ==
  CASE r.st = "429" -> Sleeping(tk, RetryAfter(r.h))
    [] r.st = "500" -> IF tk.attempt < tk.retries
                       THEN Sleeping(tk, Backoff(tk.attempt))
                       ELSE OnClientError(tk)
    [] r.st = "404" -> OnClientError(tk)
    [] r.st = "conn" -> OnClientError(tk)
    [] r.st = "timeout" -> Done(tk, Fail("TimeoutError", "raised as it is"))
    [] r.st = "200" -> Done(tk, Ok(r.data))

\* the wait directive of a response, 60 when it carries none
WaitDirective(r) == IF r.h = NoHeader THEN 60 ELSE r.h

\* the network attempt of the task is answered
TaskResponse(t, r) ==
  /\ tasks[t].pc = "network"
  /\ tasks' = [tasks EXCEPT ![t] =
       [OnResponse(tasks[t], r) EXCEPT
          !.nets = @ + 1,
          !.last = r.st,
          !.wait = IF r.st = "429" THEN WaitDirective(r) ELSE 0,
          !.since = 0,
          !.nap = OnResponse(tasks[t], r).sleepLeft,
          !.at = tasks[t].attempt,
          !.onlyConn = @ /\ r.st = "conn"]]
  /\ UNCHANGED <<bucketVars, acqVars, cacheVars, caller, inflight, restVars>>

\* the loop with a 429 exempt from the retry bound: after the directed wait
\* the attempt is made again and not counted
WakeThrottleExempt(t) ==
  /\ tasks[t].pc = "sleep"
  /\ Slept(tasks[t])
  /\ tasks' = [tasks EXCEPT ![t] =
       IF tasks[t].last = "429"
       THEN [tasks[t] EXCEPT !.pc = "acquire"]
       ELSE IF tasks[t].attempt + 1 <= tasks[t].retries
       THEN [tasks[t] EXCEPT !.pc = "acquire", !.attempt = @ + 1]
       ELSE [Done(tasks[t], Fail("RuntimeError", "max retries exceeded"))
               EXCEPT !.attempt = @ + 1]]
  /\ UNCHANGED <<bucketVars, acqVars, cacheVars, caller, inflight, restVars>>

\* the sleep is over: attempt += 1; continue, and the loop ends with
\* raise RuntimeError(f"Max retries ({retries}) exceeded for {endpoint}")
TaskWake(t) ==
  /\ tasks[t].pc = "sleep"
  /\ Slept(tasks[t])
  /\ tasks' = [tasks EXCEPT ![t] =
       IF tasks[t].attempt + 1 <= tasks[t].retries
       THEN [tasks[t] EXCEPT !.pc = "acquire", !.attempt = @ + 1]
       ELSE [Done(tasks[t], Fail("RuntimeError", "max retries exceeded"))
               EXCEPT !.attempt = @ + 1]]
  /\ UNCHANGED <<bucketVars, acqVars, cacheVars, caller, inflight, restVars>>

\* the clocks of the tasks after d ticks
TasksAfter(d) ==
  [t \in TaskIds |->
     [tasks[t] EXCEPT
        !.sleepLeft = Max(0, @ - d),
        !.since = IF tasks[t].pc \in {"none", "done"} THEN @
                  ELSE Min(@ + d, Max(tasks[t].wait, tasks[t].nap))]]

(***************************************************************************)
(* The rate limiter of the process (rate_limit.py, module level)           *)
(***************************************************************************)
\* the TokenBucket objects that the runs can create
MaxBuckets == 3
BucketIds == 1 .. MaxBuckets

\* the APIClient objects, and a caller of get_global_rate_limiter that is
\* not an APIClient
Clients == {"client1", "client2"}
DirectCallers == {"direct"}
LimiterUsers == Clients \cup DirectCallers

\* Config.RATE_LIMIT_CALLS and Config.RATE_LIMIT_PERIOD, which APIClient passes
ConfigArgs == [capacity |-> Capacity, period |-> Capacity * TicksPerToken]
\* the (capacity, period) that a caller can pass
LimiterArgs == {ConfigArgs, [capacity |-> Capacity + 1, period |-> TicksPerToken]}

\* the debits of a bucket are counted up to this number
DebitCap == Capacity + 1

NoBucket == [made |-> FALSE, capacity |-> 0, period |-> 0, debits |-> 0]
\* TokenBucket(capacity, refill_rate), refill_rate = capacity / period
NewBucket(a) == [made |-> TRUE, capacity |-> a.capacity, period |-> a.period, debits |-> 0]
\* _global_bucket = None; no rate_limiter yet
Unmade == 0
NoArgs == [capacity |-> 0, period |-> 0]
NoLimiter == [bucket |-> Unmade, args |-> NoArgs]

\* the object that the next TokenBucket(...) makes
FreshBucket(bs) ==
  CHOOSE b \in BucketIds : ~bs[b].made /\ \A x \in BucketIds : x < b => bs[x].made

GetBucketOfArguments(g, bs, a) ==
  IF g = Unmade \/ bs[g].capacity # a.capacity \/ bs[g].period # a.period
  THEN [ret |-> FreshBucket(bs), global |-> FreshBucket(bs),
        buckets |-> [bs EXCEPT ![FreshBucket(bs)] = NewBucket(a)]]
  ELSE [ret |-> g, global |-> g, buckets |-> bs]

\* get_global_rate_limiter(capacity, period): the bucket returned, and
\* _global_bucket and the buckets after the call
GetGlobalRateLimiter(g, bs, a) ==
  IF g = Unmade
  THEN [ret |-> FreshBucket(bs), global |-> FreshBucket(bs),
        buckets |-> [bs EXCEPT ![FreshBucket(bs)] = NewBucket(a)]]
  ELSE [ret |-> g, global |-> g, buckets |-> bs]

\* user c calls get_global_rate_limiter(a) and keeps what it returns
LimiterGet(c, a) ==
  /\ \E b \in BucketIds : ~buckets[b].made
  /\ LET r == GetGlobalRateLimiter(globalBucket, buckets, a)
     IN /\ globalBucket' = r.global
        /\ buckets' = r.buckets
        /\ clients' = [clients EXCEPT ![c] = [bucket |-> r.ret, args |-> a]]
  /\ UNCHANGED resets
  /\ UNCHANGED <<bucketVars, acqVars, cacheVars, reqVars, keyVars, apiKeyVars>>

\* APIClient.__init__: self.rate_limiter = get_global_rate_limiter(
\* Config.RATE_LIMIT_CALLS, Config.RATE_LIMIT_PERIOD)
NewClient(c) ==
  /\ clients[c] = NoLimiter
  /\ LimiterGet(c, ConfigArgs)

\* another caller calls get_global_rate_limiter with arguments of its own
DirectGet(c, a) == LimiterGet(c, a)

\* reset_global_rate_limiter()
ResetGlobalRateLimiter ==
  /\ resets < MaxBuckets - 1
  /\ globalBucket' = Unmade
  /\ resets' = resets + 1
  /\ UNCHANGED <<buckets, clients>>
  /\ UNCHANGED <<bucketVars, acqVars, cacheVars, reqVars, keyVars, apiKeyVars>>

\* a request of client c takes a token: self.rate_limiter.wait_until_available(1)
ClientDebit(c) ==
  /\ clients[c] # NoLimiter
  /\ buckets[clients[c].bucket].debits < DebitCap
  /\ buckets' = [buckets EXCEPT ![clients[c].bucket].debits = @ + 1]
  /\ UNCHANGED <<globalBucket, clients, resets>>
  /\ UNCHANGED <<bucketVars, acqVars, cacheVars, reqVars, keyVars, apiKeyVars>>

LimiterUnused ==
  /\ globalBucket = Unmade
  /\ buckets = [b \in BucketIds |-> NoBucket]
  /\ clients = [c \in LimiterUsers |-> NoLimiter]
  /\ resets = 0

(***************************************************************************)
(* The request key (APIClient._request_key)                                *)
(***************************************************************************)
\* the largest number of query parameters of a request
MaxParams == 2

\* the names of the query parameters, numbered in the order of their strings
ParamNames == 1 .. 3
\* the values of the query parameters: an int and a str, with their str()
ParamValues == {[type |-> "int", text |-> "1"], [type |-> "str", text |-> "2"]}
KeyMethods == {"GET"}
KeyEndpoints == {"/user", "/faction"}

\* a dict of query parameters: its items in insertion order, names distinct
Dicts ==
  {p \in UNION {[1 .. n -> ParamNames \X ParamValues] : n \in 0 .. MaxParams} :
     \A i, j \in DOMAIN p : i # j => p[i][1] # p[j][1]}
\* the params argument: None, or a dict
NoParams == [isNone |-> TRUE, items |-> <<>>]
ParamsArgs == {NoParams} \cup {[isNone |-> FALSE, items |-> p] : p \in Dicts}

\* the names of a dict, and params[k]
NamesOf(items) == {items[i][1] : i \in DOMAIN items}
ValueOf(items, k) == items[CHOOSE i \in DOMAIN items : items[i][1] = k][2]

\* sorted(params): the names in ascending order
RECURSIVE SortedNames(_)
SortedNames(S) ==
  IF S = {} THEN <<>>
  ELSE LET m == CHOOSE x \in S : \A y \in S : x <= y
       IN <<m>> \o SortedNames(S \ {m})

\* the names as iterating over the dict gives them
InsertionNames(items) == [i \in DOMAIN items |-> items[i][1]]

\* "&".join(f"{k}={params[k]}" for k in names): the list of the k=str(value)
Joined(items, names) ==
  [i \in DOMAIN names |-> <<names[i], ValueOf(items, names[i]).text>>]

KeyInInsertionOrder(method, endpoint, params) ==
  <<method, endpoint,
    IF ~params.isNone /\ Len(params.items) > 0
    THEN Joined(params.items, InsertionNames(params.items))
    ELSE <<>> >>

\* _request_key(method, endpoint, params)
RequestKey(method, endpoint, params) ==
  <<method, endpoint,
    IF ~params.isNone /\ Len(params.items) > 0
    THEN Joined(params.items, SortedNames(NamesOf(params.items)))
    ELSE <<>> >>

KeyCallers == {"k1", "k2"}
NoKey == <<>>

\* _make_request up to its await: the key is computed and looked up; a caller
\* that finds a handle awaits it, another creates the task and registers it
KeyCall(c) ==
  /\ keyCalls[c].pc = "new"
  /\ LET key == RequestKey(keyCalls[c].method, keyCalls[c].endpoint, keyCalls[c].params)
     IN IF key \in keyRegistry
        THEN /\ keyCalls' = [keyCalls EXCEPT ![c].pc = "waiter", ![c].key = key]
             /\ UNCHANGED <<keyRegistry, keyTasks>>
        ELSE /\ keyCalls' = [keyCalls EXCEPT ![c].pc = "owner", ![c].key = key]
             /\ keyRegistry' = keyRegistry \cup {key}
             /\ keyTasks' = keyTasks + 1
  /\ UNCHANGED <<bucketVars, acqVars, cacheVars, reqVars, limiterVars, apiKeyVars>>

\* the task of an owner completes: owner and waiters get its outcome and the
\* owner pops the handle
KeyDone(c) ==
  /\ keyCalls[c].pc = "owner"
  /\ keyCalls' = [x \in KeyCallers |->
                    IF keyCalls[x].pc \in {"owner", "waiter"} /\ keyCalls[x].key = keyCalls[c].key
                    THEN [keyCalls[x] EXCEPT !.pc = "done"]
                    ELSE keyCalls[x]]
  /\ keyRegistry' = keyRegistry \ {keyCalls[c].key}
  /\ UNCHANGED keyTasks
  /\ UNCHANGED <<bucketVars, acqVars, cacheVars, reqVars, limiterVars, apiKeyVars>>

NoKeyCall == [pc |-> "none", method |-> None, endpoint |-> None, params |-> NoParams,
              key |-> NoKey]

KeyUnused ==
  /\ keyCalls = [c \in KeyCallers |-> NoKeyCall]
  /\ keyRegistry = {}
  /\ keyTasks = 0

(***************************************************************************)
(* ApiKeyStore (discord_bot/key_store.py).  Its clock ticks in units of    *)
(* the configured ttl_seconds / KeyTTL.  No critical section of the store  *)
(* awaits, so its lock is always free and each method runs as one step.    *)
(***************************************************************************)
\* ttl_seconds of the store (API_KEY_TTL_SECONDS), in ticks
KeyTTL == 2
\* the _expire_later tasks that can be pending at once
MaxTimers == 2

Users == {"u1", "u2"}
ApiKeyValues == {"keyA", "keyB"}
KeyTypes == {"limited", "full"}
TimerIds == 1 .. MaxTimers

\* what get_key returns for None
Nothing == <<>>

NoApiKey == [present |-> FALSE, api_key |-> None, key_type |-> None, left |-> 0]
NoTimer == [pc |-> "none", user |-> None, left |-> 0, sleepLeft |-> 0]
NeverSet == [set |-> FALSE, api_key |-> None, key_type |-> None, since |-> 0,
             cleared |-> FALSE]

\* set_key: self._store[user_id] = (api_key, key_type, time.time() + self._ttl_seconds)
SetKey(st, u, k, ty) ==
  [st EXCEPT ![u] = [present |-> TRUE, api_key |-> k, key_type |-> ty, left |-> KeyTTL]]

GetKeyUnchecked(st, u) ==
  IF ~st[u].present
  THEN [ret |-> Nothing, store |-> st]
  ELSE [ret |-> <<st[u].api_key, st[u].key_type>>, store |-> st]

\* get_key(user_id): what it returns and the store after it
GetKey(st, u) ==
  IF ~st[u].present
  THEN [ret |-> Nothing, store |-> st]
  ELSE IF st[u].left <= 0
  THEN [ret |-> Nothing, store |-> [st EXCEPT ![u] = NoApiKey]]
  ELSE [ret |-> <<st[u].api_key, st[u].key_type>>, store |-> st]

ClearKeyIfExpired(st, u) == IF st[u].left <= 0 THEN [st EXCEPT ![u] = NoApiKey] ELSE st

\* clear_key(user_id): self._store.pop(user_id, None)
ClearKey(st, u) == [st EXCEPT ![u] = NoApiKey]

\* a timer that deletes the user's entry without looking at its expires_at
ExpireWhateverIsThere(st, u) == [st EXCEPT ![u] = NoApiKey]

\* the end of _expire_later: the entry of the user, whichever set_key stored
\* it, is deleted if its expires_at has come
ExpireNow(st, u) ==
  IF st[u].present /\ st[u].left <= 0 THEN [st EXCEPT ![u] = NoApiKey] ELSE st

FreeTimer == CHOOSE t \in TimerIds :
               expiries[t].pc = "none" /\ \A x \in TimerIds : x < t => expiries[x].pc # "none"

\* a user submits a key: set_key, which also creates the _expire_later task
KeySet(u, k, ty) ==
  /\ \E t \in TimerIds : expiries[t].pc = "none"
  /\ apiKeys' = SetKey(apiKeys, u, k, ty)
  /\ expiries' = [expiries EXCEPT ![FreeTimer] =
                    [pc |-> "start", user |-> u, left |-> KeyTTL, sleepLeft |-> 0]]
  /\ keySets' = [keySets EXCEPT ![u] = [set |-> TRUE, api_key |-> k, key_type |-> ty,
                                        since |-> 0, cleared |-> FALSE]]
  /\ UNCHANGED <<bucketVars, acqVars, cacheVars, reqVars, limiterVars, keyVars>>

\* get_key is called
KeyGet(u) ==
  /\ apiKeys' = GetKey(apiKeys, u).store
  /\ UNCHANGED <<expiries, keySets>>
  /\ UNCHANGED <<bucketVars, acqVars, cacheVars, reqVars, limiterVars, keyVars>>

\* forget_key: clear_key is called
KeyClear(u) ==
  /\ apiKeys' = ClearKey(apiKeys, u)
  /\ keySets' = [keySets EXCEPT ![u].cleared = TRUE]
  /\ UNCHANGED expiries
  /\ UNCHANGED <<bucketVars, acqVars, cacheVars, reqVars, limiterVars, keyVars>>

\* _expire_later with a sleep that ends a tick before expires_at
ExpireStartEarly(t) ==
  /\ expiries[t].pc = "start"
  /\ expiries' = [expiries EXCEPT ![t].pc = "sleep",
                                  ![t].sleepLeft = Max(0, expiries[t].left - 1)]
  /\ UNCHANGED <<apiKeys, keySets>>
  /\ UNCHANGED <<bucketVars, acqVars, cacheVars, reqVars, limiterVars, keyVars>>

\* _expire_later starts: delay = max(0.0, expires_at - time.time()), then sleeps
ExpireStart(t) ==
  /\ expiries[t].pc = "start"
  /\ expiries' = [expiries EXCEPT ![t].pc = "sleep", ![t].sleepLeft = Max(0, expiries[t].left)]
  /\ UNCHANGED <<apiKeys, keySets>>
  /\ UNCHANGED <<bucketVars, acqVars, cacheVars, reqVars, limiterVars, keyVars>>

\* the sleep of _expire_later is over
ExpireFire(t) ==
  /\ expiries[t].pc = "sleep"
  /\ expiries[t].sleepLeft = 0
  /\ apiKeys' = ExpireNow(apiKeys, expiries[t].user)
  /\ expiries' = [expiries EXCEPT ![t] = NoTimer]
  /\ UNCHANGED keySets
  /\ UNCHANGED <<bucketVars, acqVars, cacheVars, reqVars, limiterVars, keyVars>>

\* one tick of the clock of the key store
KeyTick ==
  /\ apiKeys' = [u \in Users |->
                   IF apiKeys[u].present THEN [apiKeys[u] EXCEPT !.left = Max(0, @ - 1)]
                   ELSE apiKeys[u]]
  /\ expiries' = [t \in TimerIds |->
                    IF expiries[t].pc = "none" THEN expiries[t]
                    ELSE [expiries[t] EXCEPT !.left = Max(0, @ - 1),
                                             !.sleepLeft = Max(0, @ - 1)]]
  /\ keySets' = [u \in Users |->
                   IF keySets[u].set THEN [keySets[u] EXCEPT !.since = Min(@ + 1, KeyTTL)]
                   ELSE keySets[u]]
  /\ UNCHANGED <<bucketVars, acqVars, cacheVars, reqVars, limiterVars, keyVars>>

ApiKeysUnused ==
  /\ apiKeys = [u \in Users |-> NoApiKey]
  /\ expiries = [t \in TimerIds |-> NoTimer]
  /\ keySets = [u \in Users |-> NeverSet]

\* the parts outside the bucket, the cache and the coordinator are not in use
RestUnused == LimiterUnused /\ KeyUnused /\ ApiKeysUnused

(***************************************************************************)
(* Time and the specifications                                             *)
(***************************************************************************)
\* every clock one tick later
TimePasses ==
  /\ age' = Min(age + 1, CapUnits)
  /\ acq' = AcqAfter(1)
  /\ elapsedTotal' = Min(elapsedTotal + 1, ElapsedCap)
  /\ budget' = Min(budget + 1, BudgetCap)
  /\ mem' = Aged(mem, 1)
  /\ db' = Aged(db, 1)
  /\ lastPut' = PutsAged(1)
  /\ tasks' = TasksAfter(1)
  /\ UNCHANGED <<tokens, sessionOnly, store, caller, inflight, restVars>>

\* one tick of wall-clock time
Tick == TimePasses

\* no request made
ClientUnused ==
  /\ caller = [c \in ReqCallers |-> NoCall]
  /\ tasks = [t \in TaskIds |-> NoTaskRec]
  /\ inflight = [k \in RequestKeys |-> NoTask]

\* no cache in use
CacheUnused ==
  /\ mem = EmptyTier
  /\ db = EmptyTier
  /\ sessionOnly = TRUE
  /\ lastPut = [k \in CacheKeys |-> NoPut]
  /\ store = NewStore(FALSE, {})

\* a bucket left alone for long: full, its counters at their caps
BucketUnused ==
  /\ tokens = CapUnits
  /\ age = CapUnits
  /\ acq = [c \in AcqCallers |-> IdleAcq]
  /\ budget = BudgetCap
  /\ elapsedTotal = ElapsedCap

InitBucket ==
  /\ RestUnused
  /\ CacheUnused
  /\ ClientUnused
  /\ tokens = CapUnits
  /\ age = 0
  /\ acq = [c \in AcqCallers |-> IdleAcq]
  /\ budget = CapUnits
  /\ elapsedTotal = ElapsedCap

NextBucket ==
  \/ \E c \in AcqCallers, n \in TokenArgs, t \in TimeoutArgs : AcquireCall(c, n, t)
  \/ \E c \in AcqCallers : AcquireStep(c)
  \/ \E c \in AcqCallers : AcquireWake(c)
  \/ Tick

SpecBucket == InitBucket /\ [][NextBucket]_vars

(***************************************************************************)
(* N > C concurrent acquire(1) calls on a full bucket                      *)
(***************************************************************************)
FairCallers == 1 .. (Capacity + 2)

InitFair ==
  /\ RestUnused
  /\ CacheUnused
  /\ ClientUnused
  /\ tokens = CapUnits
  /\ age = 0
  /\ acq = [c \in FairCallers |-> [IdleAcq EXCEPT !.pc = "try", !.n = 1]]
  /\ budget = CapUnits
  /\ elapsedTotal = 0

NextFair ==
  \/ \E c \in FairCallers : AcquireStep(c)
  \/ \E c \in FairCallers : AcquireWake(c)
  \/ Tick

SpecFair ==
  /\ InitFair
  /\ [][NextFair]_vars
  /\ WF_vars(Tick)
  /\ \A c \in FairCallers : WF_vars(AcquireStep(c)) /\ WF_vars(AcquireWake(c))

(***************************************************************************)
(* acquire(n, timeout=None) for every n up to more than the capacity       *)
(***************************************************************************)
\* acquire(n) is called without a timeout
AcquireForever(c, n) == AcquireCall(c, n, NoTimeout)

NextPoll ==
  \/ \E c \in AcqCallers, n \in TokenArgs : AcquireForever(c, n)
  \/ \E c \in AcqCallers : AcquireStep(c)
  \/ \E c \in AcqCallers : AcquireWake(c)
  \/ Tick

\* the event loop runs every coroutine that can run, and time advances
FairPoll ==
  /\ WF_vars(Tick)
  /\ \A c \in AcqCallers : WF_vars(AcquireStep(c)) /\ WF_vars(AcquireWake(c))

SpecPoll == InitBucket /\ [][NextPoll]_vars /\ FairPoll

(***************************************************************************)
(* The cache alone: any sequence of get, put, invalidate and sweep         *)
(***************************************************************************)
\* the rows a previous run of the process may have left in the durable tier
OldRows == {NoEntry} \cup {Entry(JsonDumps("doc"), a, DefaultTTL) : a \in 0 .. (DefaultTTL + 1)}

InitCache ==
  /\ RestUnused
  /\ BucketUnused
  /\ ClientUnused
  /\ mem = EmptyTier
  /\ sessionOnly \in BOOLEAN
  /\ db \in IF sessionOnly THEN {EmptyTier}
           ELSE {[k \in CacheKeys |-> IF k \in TierKeys THEN rows[k] ELSE NoEntry] :
                   rows \in [TierKeys -> OldRows]}
  /\ lastPut = [k \in CacheKeys |-> NoPut]
  /\ store = NewStore(~sessionOnly, {})

NextCache ==
  \/ \E k \in TierKeys : CacheGet(k)
  \/ \E k \in TierKeys, data \in Payloads, T \in TTLArgs : CachePut(k, data, T)
  \/ \E k \in TierKeys : CacheDelete(k)
  \/ CacheClearExpired
  \/ Tick

SpecCache == InitCache /\ [][NextCache]_vars

(***************************************************************************)
(* The cache and the player features over a database file that an earlier  *)
(* run may have left                                                       *)
(***************************************************************************)
\* the rows of api_cache that an earlier run left: none, or a fresh one for
\* every key
LeftRows ==
  {EmptyTier,
   [k \in CacheKeys |-> IF k \in TierKeys THEN Entry(JsonDumps("doc"), 0, DefaultTTL)
                        ELSE NoEntry]}

\* Cache(db_path, session_only): _init_db creates the tables unless
\* session_only; without them the file holds what it held before
InitStore ==
  /\ RestUnused
  /\ BucketUnused
  /\ ClientUnused
  /\ mem = EmptyTier
  /\ sessionOnly \in BOOLEAN
  /\ store \in {NewStore(tb, rw) : tb \in (IF sessionOnly THEN BOOLEAN ELSE {TRUE}),
                                   rw \in SUBSET Players}
  /\ store.tables \/ store.rows = {}
  /\ db \in IF store.tables THEN LeftRows ELSE {EmptyTier}
  /\ lastPut = [k \in CacheKeys |-> NoPut]

NextStore ==
  \/ \E k \in TierKeys : CacheGet(k)
  \/ \E k \in TierKeys : CachePut(k, "{}", NoTTL)
  \/ \E k \in TierKeys : CacheDelete(k)
  \/ CacheClearExpired
  \/ \E p \in Players : SavePlayerFeatures(p)
  \/ \E p \in Players : GetPlayerFeatures(p)
  \/ GetAllPlayerIds
  \/ Tick

SpecStore == InitStore /\ [][NextStore]_vars

(***************************************************************************)
(* One caller of _make_request: the retry loop                             *)
(***************************************************************************)
\* the bucket as earlier requests may have left it: empty or full
BucketInUse ==
  /\ tokens \in {0, CapUnits}
  /\ age = 0
  /\ budget = tokens
  /\ acq = [c \in AcqCallers |-> IdleAcq]
  /\ elapsedTotal = ElapsedCap

InitRetry ==
  /\ RestUnused
  /\ BucketInUse
  /\ CacheUnused
  /\ ClientUnused

NextRetry ==
  \/ \E rk \in CoordKeys, arg \in RetriesArgs : MakeRequest("c1", rk, arg)
  \/ \E arg \in RetriesArgs : MakeFullUrlRequest("c1", arg)
  \/ CallerResume("c1")
  \/ \E t \in TaskIds : TaskAcquire(t)
  \/ \E t \in TaskIds, r \in Responses : TaskResponse(t, r)
  \/ \E t \in TaskIds : TaskWake(t)
  \/ Tick

SpecRetry == InitRetry /\ [][NextRetry]_vars

(***************************************************************************)
(* The retry loop under a fair event loop                                  *)
(***************************************************************************)
\* the answers of the network in these runs: one of every kind of outcome
TermResponses ==
  {r \in Responses : (r.st = "200" => r.data = "doc") /\ (r.st = "429" => r.h = 2)}
\* the request of these runs
TermKeys == {"rA"}

InitTerm ==
  /\ RestUnused
  /\ BucketInUse
  /\ CacheUnused
  /\ ClientUnused

NextTerm ==
  \/ \E rk \in TermKeys, arg \in RetriesArgs : MakeRequest("c1", rk, arg)
  \/ CallerResume("c1")
  \/ \E t \in TaskIds : TaskAcquire(t)
  \/ \E t \in TaskIds, r \in TermResponses : TaskResponse(t, r)
  \/ \E t \in TaskIds : TaskWake(t)
  \/ Tick

\* the event loop runs every task that can run, time goes by (the bucket
\* refills, the sleeps end) and every network call returns
FairTerm ==
  /\ WF_vars(Tick)
  /\ \A t \in TaskIds :
       /\ WF_vars(TaskAcquire(t))
       /\ WF_vars(\E r \in TermResponses : TaskResponse(t, r))
       /\ WF_vars(TaskWake(t))

SpecTerm == InitTerm /\ [][NextTerm]_vars /\ FairTerm

(***************************************************************************)
(* Concurrent callers of _make_request: the coordination of the requests   *)
(***************************************************************************)
\* the answers of the network in these runs
CoordResponses ==
  {r \in Responses : r.st \in {"conn", "timeout"} \/ (r.st = "200" /\ r.data = "doc")}
\* the callers of these runs
CoordCallers == {"c1", "c2"}
\* the retries these callers pass
CoordRetries == {1}
\* the requests a caller makes: the first caller always the same one
KeysOf(c) == IF c = "c1" THEN {"rA"} ELSE CoordKeys

Init ==
  /\ RestUnused
  /\ BucketInUse
  /\ CacheUnused
  /\ ClientUnused

Next ==
  \/ \E c \in CoordCallers : \E rk \in KeysOf(c), arg \in CoordRetries : MakeRequest(c, rk, arg)
  \/ \E c \in CoordCallers : CallerResume(c)
  \/ \E t \in TaskIds : TaskAcquire(t)
  \/ \E t \in TaskIds, r \in CoordResponses : TaskResponse(t, r)
  \/ \E t \in TaskIds : TaskWake(t)
  \/ Tick

Spec == Init /\ [][Next]_vars

(***************************************************************************)
(* Concurrent callers of _make_request that can be cancelled               *)
(***************************************************************************)
\* the answers of the network in these runs
CancelResponses == {r \in CoordResponses : r.st \in {"200", "conn"}}

\* the callers that get cancelled in these runs
CancelledCallers == {"c1"}

InitCancel ==
  /\ RestUnused
  /\ BucketInUse
  /\ CacheUnused
  /\ ClientUnused

NextCancel ==
  \/ \E c \in CoordCallers, arg \in CoordRetries : MakeRequest(c, "rA", arg)
  \/ \E c \in CancelledCallers : CancelCaller(c)
  \/ \E c \in CoordCallers : CallerResume(c)
  \/ \E t \in TaskIds : TaskAcquire(t)
  \/ \E t \in TaskIds, r \in CancelResponses : TaskResponse(t, r)
  \/ \E t \in TaskIds : TaskWake(t)
  \/ Tick

\* a caller whose task is done runs again: the event loop runs every
\* callback that is ready
SpecCancel ==
  /\ InitCancel
  /\ [][NextCancel]_vars
  /\ \A c \in CoordCallers : WF_vars(CallerResume(c))

(***************************************************************************)
(* fetch_multiple_players: asyncio.gather over fetch_player_stats          *)
(***************************************************************************)
\* player_ids of the batch, and the child of gather that fetches each
BatchIds == <<"stats_p1", "stats_p2">>
BatchChildren == <<"c1", "c2">>
\* a caller outside the batch that fetches the first player and can be
\* cancelled
Outsider == "c3"

\* the answers of the network in these runs
BatchResponses == {r \in Responses : r.st \in {"200", "timeout"}}

\* the first child of gather has taken its first step, the second not yet:
\* gather schedules them back to back, nothing runs between the two
Starting == caller[BatchChildren[1]] # NoCall /\ caller[BatchChildren[2]] = NoCall

\* responses = await asyncio.gather(*tasks, return_exceptions=True) is over
Gathered ==
  \A i \in DOMAIN BatchChildren :
    caller[BatchChildren[i]] # NoCall /\ caller[BatchChildren[i]].pc = "idle"

\* isinstance(response, Exception): asyncio.CancelledError derives from
\* BaseException
IsException(res) == res.kind \in {"RuntimeError", "TimeoutError"}

\* results, by position in player_ids: results[player_id] = response for
\* every response that is not an instance of Exception
BatchResults ==
  [i \in {j \in DOMAIN BatchIds : ~IsException(caller[BatchChildren[j]].res)} |->
     caller[BatchChildren[i]].res]

\* a child of gather takes its first step, in the order of player_ids
ChildStart(i) ==
  /\ caller[BatchChildren[i]] = NoCall
  /\ \A j \in 1 .. (i - 1) : caller[BatchChildren[j]] # NoCall
  /\ FacadeFetch(BatchChildren[i], BatchIds[i])

\* the caller outside the batch calls fetch_player_stats, once
OutsiderFetch ==
  /\ caller[Outsider] = NoCall
  /\ FacadeFetch(Outsider, BatchIds[1])

InitBatch ==
  /\ RestUnused
  /\ BucketInUse
  /\ CacheUnused
  /\ ClientUnused

NextBatch ==
  \/ \E i \in DOMAIN BatchIds : ChildStart(i)
  \/ ~Starting /\ OutsiderFetch
  \/ ~Starting /\ CancelCaller(Outsider)
  \/ ~Starting /\ \E c \in ReqCallers : CallerResume(c)
  \/ ~Starting /\ \E t \in TaskIds : TaskAcquire(t)
  \/ ~Starting /\ \E t \in TaskIds, r \in BatchResponses : TaskResponse(t, r)
  \/ ~Starting /\ Tick

SpecBatch == InitBatch /\ [][NextBatch]_vars

(***************************************************************************)
(* The callers of the facade                                               *)
(***************************************************************************)
\* the answers of the network in these runs
FacadeResponses ==
  {r \in Responses : r.st \in {"200", "timeout"} \/ (r.st = "429" /\ r.h = 0)}

\* the callers of the facade in these runs
FacadeCallers == {"c1"}

InitFacade ==
  /\ RestUnused
  /\ BucketInUse
  /\ CacheUnused
  /\ ClientUnused

NextFacade ==
  \/ \E c \in FacadeCallers, op \in Ops : FacadeFetch(c, op)
  \/ \E c \in FacadeCallers : CallerResume(c)
  \/ \E t \in TaskIds : TaskAcquire(t)
  \/ \E t \in TaskIds, r \in FacadeResponses : TaskResponse(t, r)
  \/ \E t \in TaskIds : TaskWake(t)
  \/ Tick

SpecFacade == InitFacade /\ [][NextFacade]_vars

(***************************************************************************)
(* A caller of the facade operations that differ in ttl_seconds, the cache *)
(* with both tiers                                                         *)
(***************************************************************************)
\* the answers of the network in these runs: the 2xx ones
TtlResponses == {r \in Responses : r.st = "200"}

TtlCallers == {"c1"}

InitTtl ==
  /\ RestUnused
  /\ BucketUnused
  /\ ClientUnused
  /\ mem = EmptyTier
  /\ db = EmptyTier
  /\ sessionOnly = FALSE
  /\ lastPut = [k \in CacheKeys |-> NoPut]
  /\ store = NewStore(TRUE, {})

NextTtl ==
  \/ \E c \in TtlCallers, op \in TtlOps : FacadeFetch(c, op)
  \/ \E c \in TtlCallers : CallerResume(c)
  \/ \E t \in TaskIds : TaskAcquire(t)
  \/ \E t \in TaskIds, r \in TtlResponses : TaskResponse(t, r)
  \/ Tick

SpecTtl == InitTtl /\ [][NextTtl]_vars

(***************************************************************************)
(* fetch_faction_attacks with two values of limit                          *)
(***************************************************************************)
\* fetch_faction_attacks(limit=a) and fetch_faction_attacks(limit=b), b # a
AttackOps == {"attacks", "attacks_b"}
\* what the API answers on the endpoint of the request: the attacks of the
\* limit that the endpoint names
DocOf(rk) ==
  CASE rk = "rAttacks" -> "attacks_a"
    [] rk = "rAttacksB" -> "attacks_b"
AnswerOf(rk) == [st |-> "200", data |-> DocOf(rk), h |-> NoHeader]

InitAttacks ==
  /\ RestUnused
  /\ BucketInUse
  /\ ClientUnused
  /\ mem = EmptyTier
  /\ db = EmptyTier
  /\ sessionOnly \in BOOLEAN
  /\ lastPut = [k \in CacheKeys |-> NoPut]
  /\ store = NewStore(~sessionOnly, {})

NextAttacks ==
  \/ \E op \in AttackOps : FacadeFetch("c1", op)
  \/ CallerResume("c1")
  \/ \E t \in TaskIds : TaskAcquire(t)
  \/ \E t \in TaskIds : TaskResponse(t, AnswerOf(tasks[t].rk))
  \/ Tick

SpecAttacks == InitAttacks /\ [][NextAttacks]_vars

(***************************************************************************)
(* fetch_faction_members answered with an API-level error object           *)
(***************************************************************************)
\* isinstance(faction_data, dict) and "error" in faction_data
HasApiError(data) == data = "api_error"
\* the 2xx answers of the faction members endpoint: the members, or a body
\* {"error": {"code": ..., "error": ...}}
MembersAnswers ==
  {[st |-> "200", data |-> "doc", h |-> NoHeader],
   [st |-> "200", data |-> "api_error", h |-> NoHeader]}

FetchFactionMembers(c) == FacadeFetch(c, "members")

InitErrorBody ==
  /\ RestUnused
  /\ BucketInUse
  /\ ClientUnused
  /\ mem = EmptyTier
  /\ db = EmptyTier
  /\ sessionOnly \in BOOLEAN
  /\ lastPut = [k \in CacheKeys |-> NoPut]
  /\ store = NewStore(~sessionOnly, {})

NextErrorBody ==
  \/ FetchFactionMembers("c1")
  \/ CallerResume("c1")
  \/ \E t \in TaskIds : TaskAcquire(t)
  \/ \E t \in TaskIds, r \in MembersAnswers : TaskResponse(t, r)
  \/ Tick

SpecErrorBody == InitErrorBody /\ [][NextErrorBody]_vars

(***************************************************************************)
(* Two clients with different credentials                                  *)
(***************************************************************************)
\* the callers of these runs: each has its own APIClient(api_key=...)
CredCallers == {"c1", "c2"}
\* self.api_key of the caller's client
ApiKeyOf(c) == IF c = "c1" THEN "K1" ELSE "K2"
\* the caller whose client runs the task: the one that created it
OwnerOf(t) == CHOOSE c \in CredCallers : caller[c].owner /\ caller[c].task = t
\* what the API answers to a request of /user with the Authorization header
\* of a key: the stats of the user of that key
StatsOf(key) == IF key = "K1" THEN "stats_of_K1" ELSE "stats_of_K2"
UserAnswer(key) == [st |-> "200", data |-> StatsOf(key), h |-> NoHeader]

\* fetch_user_stats(), once per caller
FetchUserStats(c) == caller[c].op = None /\ FacadeFetch(c, "user_stats")

InitCredentials ==
  /\ RestUnused
  /\ BucketInUse
  /\ ClientUnused
  /\ mem = EmptyTier
  /\ db = EmptyTier
  /\ sessionOnly \in BOOLEAN
  /\ lastPut = [k \in CacheKeys |-> NoPut]
  /\ store = NewStore(~sessionOnly, {})

NextCredentials ==
  \/ \E c \in CredCallers : FetchUserStats(c)
  \/ \E c \in CredCallers : CallerResume(c)
  \/ \E t \in TaskIds : TaskAcquire(t)
  \/ \E t \in TaskIds : TaskResponse(t, UserAnswer(ApiKeyOf(OwnerOf(t))))
  \/ Tick

SpecCredentials == InitCredentials /\ [][NextCredentials]_vars

(***************************************************************************)
(* Two callers of one facade operation whose request can fail              *)
(***************************************************************************)
\* the answers of the network in these runs: a document, a connection
\* error, a timeout
FailResponses == {r \in Responses : (r.st = "200" /\ r.data = "doc") \/ r.st \in {"conn", "timeout"}}

FailCallers == {"c1", "c2"}
FailOp == "stats_p1"

\* the entry, if any, that the cache holds for the operation beforehand: an
\* empty document, which the facade does not take for a hit
HeldBefore(had, data) ==
  [k \in CacheKeys |-> IF had /\ k = CacheKeyOf(FailOp) THEN Entry(data, 0, DefaultTTL)
                       ELSE NoEntry]

\* the one call that a caller makes in these runs
OnlyFetch(c) == caller[c].op = None /\ FacadeFetch(c, FailOp)

InitFail ==
  /\ RestUnused
  /\ BucketUnused
  /\ ClientUnused
  /\ sessionOnly \in BOOLEAN
  /\ \E had \in BOOLEAN :
       /\ mem = HeldBefore(had, "{}")
       /\ db = HeldBefore(had /\ ~sessionOnly, JsonDumps("{}"))
  /\ lastPut = [k \in CacheKeys |-> NoPut]
  /\ store = NewStore(~sessionOnly, {})

NextFail ==
  \/ \E c \in FailCallers : OnlyFetch(c)
  \/ \E c \in FailCallers : CallerResume(c)
  \/ \E c \in CancelledCallers : CancelCaller(c)
  \/ \E t \in TaskIds : TaskAcquire(t)
  \/ \E t \in TaskIds, r \in FailResponses : TaskResponse(t, r)
  \/ \E t \in TaskIds : TaskWake(t)
  \/ Tick

SpecFail == InitFail /\ [][NextFail]_vars

(***************************************************************************)
(* Concurrent callers of fetch_faction_reports_v1                          *)
(***************************************************************************)
\* the answers of the network in these runs
ReportResponses ==
  {r \in Responses : r.st = "conn" \/ (r.st = "200" /\ r.data = "doc")}
\* the callers of these runs, with the same faction_id and from_timestamp
ReportCallers == {"c1", "c2"}

InitReports ==
  /\ RestUnused
  /\ BucketInUse
  /\ ClientUnused
  /\ sessionOnly = FALSE
  /\ mem = EmptyTier
  /\ db = EmptyTier
  /\ lastPut = [k \in CacheKeys |-> NoPut]
  /\ store = NewStore(TRUE, {})

NextReports ==
  \/ \E c \in ReportCallers : FetchFactionReportsV1(c)
  \/ \E c \in ReportCallers : CallerResume(c)
  \/ \E t \in TaskIds : TaskAcquire(t)
  \/ \E t \in TaskIds, r \in ReportResponses : TaskResponse(t, r)
  \/ \E t \in TaskIds : TaskWake(t)
  \/ Tick

SpecReports == InitReports /\ [][NextReports]_vars

(***************************************************************************)
(* Two callers of one facade operation around the end of its request       *)
(***************************************************************************)
\* the answers of the network in these runs
WindowResponses == {r \in Responses : r.st = "200"}

InitWindow ==
  /\ RestUnused
  /\ BucketInUse
  /\ ClientUnused
  /\ mem = EmptyTier
  /\ db = EmptyTier
  /\ sessionOnly \in BOOLEAN
  /\ lastPut = [k \in CacheKeys |-> NoPut]
  /\ store = NewStore(~sessionOnly, {})

NextWindow ==
  \/ \E c \in FailCallers : OnlyFetch(c)
  \/ \E c \in FailCallers : CallerResume(c)
  \/ \E t \in TaskIds : TaskAcquire(t)
  \/ \E t \in TaskIds, r \in WindowResponses : TaskResponse(t, r)
  \/ Tick

SpecWindow == InitWindow /\ [][NextWindow]_vars

(***************************************************************************)
(* The clients of one process and their rate limiter                       *)
(***************************************************************************)
InitLimiter ==
  /\ BucketUnused
  /\ CacheUnused
  /\ ClientUnused
  /\ LimiterUnused
  /\ KeyUnused
  /\ ApiKeysUnused

NextLimiter ==
  \/ \E c \in Clients : NewClient(c)
  \/ \E c \in DirectCallers, a \in LimiterArgs : DirectGet(c, a)
  \/ ResetGlobalRateLimiter
  \/ \E c \in Clients : ClientDebit(c)

SpecLimiter == InitLimiter /\ [][NextLimiter]_vars

(***************************************************************************)
(* Two callers of _make_request with query parameters                      *)
(***************************************************************************)
InitKey ==
  /\ BucketUnused
  /\ CacheUnused
  /\ ClientUnused
  /\ LimiterUnused
  /\ ApiKeysUnused
  /\ keyCalls \in [KeyCallers ->
                     [pc : {"new"}, method : KeyMethods, endpoint : KeyEndpoints,
                      params : ParamsArgs, key : {NoKey}]]
  /\ keyRegistry = {}
  /\ keyTasks = 0

NextKey ==
  \/ \E c \in KeyCallers : KeyCall(c)
  \/ \E c \in KeyCallers : KeyDone(c)

SpecKey == InitKey /\ [][NextKey]_vars

(***************************************************************************)
(* The users of the key store                                              *)
(***************************************************************************)
InitApiKeys ==
  /\ BucketUnused
  /\ CacheUnused
  /\ ClientUnused
  /\ LimiterUnused
  /\ KeyUnused
  /\ ApiKeysUnused

NextApiKeys ==
  \/ \E u \in Users, k \in ApiKeyValues, ty \in KeyTypes : KeySet(u, k, ty)
  \/ \E u \in Users : KeyGet(u)
  \/ \E u \in Users : KeyClear(u)
  \/ \E t \in TimerIds : ExpireStart(t)
  \/ \E t \in TimerIds : ExpireFire(t)
  \/ KeyTick

SpecApiKeys == InitApiKeys /\ [][NextApiKeys]_vars

\* the event loop runs the _expire_later tasks and time goes by; nothing
\* makes a user call set_key, get_key or clear_key
FairApiKeys ==
  /\ WF_vars(KeyTick)
  /\ \A t \in TimerIds : WF_vars(ExpireStart(t)) /\ WF_vars(ExpireFire(t))

\* the key store with one key value: the runs in which the timers are fair
NextExpiry ==
  \/ \E u \in Users : KeySet(u, "keyA", "limited")
  \/ \E u \in Users : KeyGet(u)
  \/ \E u \in Users : KeyClear(u)
  \/ \E t \in TimerIds : ExpireStart(t)
  \/ \E t \in TimerIds : ExpireFire(t)
  \/ KeyTick

SpecExpiry == InitApiKeys /\ [][NextExpiry]_vars /\ FairApiKeys

(***************************************************************************)
(* Claims                                                                  *)
(***************************************************************************)
\* the number of acquire calls that returned True
Succeeded == Cardinality({c \in DOMAIN acq : acq[c].ret = "True"})
AllSucceeded == \A c \in DOMAIN acq : acq[c].ret = "True"
HasTried(c) == acq[c].pc # "try" \/ acq[c].slept

\* C3: in every reachable state 0 <= tokens <= capacity, whatever n and
\* timeout the callers pass and however much time elapses between their steps.
C3_TokenRange == 0 <= tokens /\ tokens <= CapUnits

\* a call for the whole capacity has drained the bucket, another call waits
C3_Witness ==
  /\ tokens = 0
  /\ \E c \in DOMAIN acq : acq[c].ret = "True" /\ acq[c].n = Capacity
  /\ \E c \in DOMAIN acq : acq[c].pc = "sleep"

\* C4: the tokens granted so far never exceed the initial capacity plus the
\* tokens credited by the elapsed time (elapsed x refill_rate): the budget
\* capacity + credited - granted is never negative.
C4_GrantBound == budget >= 0

\* both callers have been served at once and the budget is used up
C4_Witness ==
  /\ budget = 0
  /\ \A c \in DOMAIN acq : acq[c].ret = "True" /\ acq[c].n = 1

C5_Safety ==
  /\ elapsedTotal < TicksPerToken => Succeeded <= Capacity
  /\ (elapsedTotal < TicksPerToken /\ \A c \in DOMAIN acq : HasTried(c))
        => Succeeded = Capacity
  /\ Succeeded > Capacity
        => elapsedTotal >= Min(ElapsedCap, (Succeeded - Capacity) * TicksPerToken)

\* C5: from a full bucket and N > C concurrent acquire(1) calls without
\* timeout, exactly C calls succeed before any refill time has elapsed, the
\* k-th further call succeeds no earlier than k / refill_rate after the start,
\* and eventually all N calls have succeeded.
C5_Fairness == [](C5_Safety) /\ <>(AllSucceeded)

\* all N callers have been served, the last ones after the refill time
C5_Witness == AllSucceeded /\ elapsedTotal >= 2 * TicksPerToken /\ tokens = 0

\* what get_cached_response(key) returns when called now
GetNow(k) == GetCachedResponse(mem, db, sessionOnly, k).val

\* C7: a get at time t after cache_response(key, payload, T), with no put or
\* invalidate of the key in between, returns the payload when t < T and
\* misses when t > T, for every integer T.
C7_TTL ==
  \A k \in CacheKeys :
    (lastPut[k].valid /\ lastPut[k].T # NoTTL) =>
       /\ lastPut[k].since < lastPut[k].T => GetNow(k) = lastPut[k].data
       /\ lastPut[k].since > lastPut[k].T => GetNow(k) = None

(***************************************************************************)
(* Claims about the request coordinator and the retry loop                 *)
(***************************************************************************)
\* a task whose sequence of network calls is in flight
Active(t) == tasks[t].pc \in {"acquire", "network", "sleep"}

\* C1: for every request key at most one sequence of network calls is in
\* flight, no task was created while a handle of its key was registered, and
\* a caller that found a handle awaits that very task (which stays the
\* registered one until it is done).
C1_SingleFlight ==
  /\ \A k \in RequestKeys :
       Cardinality({t \in TaskIds : Active(t) /\ tasks[t].rk = k}) <= 1
  /\ \A t \in TaskIds : tasks[t].pc # "none" => ~tasks[t].dup
  /\ \A t \in TaskIds : Active(t) => inflight[tasks[t].rk] = t
  /\ \A c \in ReqCallers :
       caller[c].pc = "await" =>
         /\ tasks[caller[c].task].rk = caller[c].rk
         /\ \/ inflight[caller[c].rk] = caller[c].task
            \/ tasks[caller[c].task].pc = "done"

\* two callers of the same request await one task whose network call is out
C1_Witness ==
  /\ caller["c1"].pc = "await"
  /\ caller["c2"].pc = "await"
  /\ caller["c1"].task = caller["c2"].task
  /\ caller["c1"].owner # caller["c2"].owner
  /\ tasks[caller["c1"].task].pc = "network"
  /\ tasks[caller["c1"].task].attempt = 1

\* C2: every caller whose call went through a task, the owner as well as the
\* coalesced ones, ends with the outcome of that task: its payload or its
\* failure, never another result and never none.
C2_SameOutcome ==
  \A c \in ReqCallers :
    (caller[c].pc = "idle" /\ caller[c].task # NoTask) =>
      /\ tasks[caller[c].task].pc = "done"
      /\ caller[c].res = tasks[caller[c].task].res
      /\ caller[c].res.kind # "none"
      /\ \A o \in ReqCallers :
           (caller[o].pc = "idle" /\ caller[o].task = caller[c].task) =>
             caller[o].res = caller[c].res

\* the owner and a coalesced caller have both got the terminal failure of
\* their task
C2_Witness ==
  /\ caller["c1"].pc = "idle"
  /\ caller["c2"].pc = "idle"
  /\ caller["c1"].task # NoTask
  /\ caller["c1"].task = caller["c2"].task
  /\ caller["c1"].owner # caller["c2"].owner
  /\ caller["c1"].res.kind = "RuntimeError"
  /\ caller["c2"].res = caller["c1"].res

\* C6: a facade operation called while the cache holds a live entry of its
\* key, whatever the payload of the entry, has returned that payload at once:
\* it awaits no task and went through none.
C6_CacheHit ==
  \A c \in ReqCallers :
    caller[c].live # None =>
      /\ caller[c].pc = "idle"
      /\ caller[c].task = NoTask
      /\ caller[c].res = Ok(caller[c].live)

\* C8: a request whose every network attempt ended in a connection error has
\* made maxRetries + 1 attempts when it is over, maxRetries being the retries
\* passed (0 included) or the default, and ends with a RuntimeError.
C8_Exhaustion ==
  \A t \in TaskIds :
    (tasks[t].pc = "done" /\ tasks[t].onlyConn /\ tasks[t].nets > 0) =>
      /\ tasks[t].nets = RetriesAsPassed(tasks[t].arg) + 1
      /\ tasks[t].res.kind = "RuntimeError"

\* C9: once an attempt is answered with a 404 the request is over: the task
\* neither sleeps nor acquires a token nor calls the network again.
C9_FailFast ==
  \A t \in TaskIds : tasks[t].last = "404" => tasks[t].pc = "done"

\* C10: after a 429 with a wait directive of W seconds (60 without one) the
\* task acquires a token and calls the network again no earlier than W
\* seconds later, and if the request is over after the 429 then it failed
\* for want of attempts: the attempts made exceed the retries passed.
C10_Throttle ==
  \A t \in TaskIds :
    tasks[t].last = "429" =>
      /\ tasks[t].pc \in {"acquire", "network"} => tasks[t].since >= tasks[t].wait
      /\ tasks[t].pc = "done" =>
           /\ tasks[t].res = Fail("RuntimeError", "max retries exceeded")
           /\ tasks[t].attempt > RetriesAsPassed(tasks[t].arg)
           /\ tasks[t].since >= tasks[t].wait

\* a 429 without a Retry-After was answered, 60 seconds went by and the next
\* network call of the request is out
C10_Witness ==
  \E t \in TaskIds :
    /\ tasks[t].last = "429"
    /\ tasks[t].wait = 60
    /\ tasks[t].since >= 60
    /\ tasks[t].pc = "network"
    /\ tasks[t].attempt = 1

\* C11: a 500 answered on attempt a with attempts left (a < retries) is
\* followed by a sleep of BackoffFactor^a, and only then by attempt a + 1; a
\* 500 on the last attempt (a = retries) ends the request with a
\* RuntimeError, a + 1 network attempts made and none after it.
C11_ServerError ==
  \A t \in TaskIds :
    tasks[t].last = "500" =>
      /\ tasks[t].pc # "done" =>
           /\ tasks[t].at < tasks[t].retries
           /\ tasks[t].nap = Pow(BackoffFactor, tasks[t].at)
      /\ tasks[t].pc = "sleep" =>
           /\ tasks[t].attempt = tasks[t].at
           /\ tasks[t].since + tasks[t].sleepLeft = tasks[t].nap
      /\ tasks[t].pc \in {"acquire", "network"} =>
           /\ tasks[t].attempt = tasks[t].at + 1
           /\ tasks[t].since >= Pow(BackoffFactor, tasks[t].at)
      /\ tasks[t].pc = "done" =>
           /\ tasks[t].at = tasks[t].retries
           /\ tasks[t].res.kind = "RuntimeError"
           /\ tasks[t].nets = tasks[t].at + 1

\* a 500 on the third attempt was slept on for BackoffFactor^2 and the
\* fourth, last attempt was answered with a 500 too
C11_Witness ==
  \E t \in TaskIds :
    /\ tasks[t].last = "500"
    /\ tasks[t].pc = "done"
    /\ tasks[t].at = HTTP_RETRIES
    /\ tasks[t].nets = HTTP_RETRIES + 1

\* C12: a connection error or a timeout of the request on attempt a with
\* attempts left is followed by a sleep of BackoffFactor^a and another
\* attempt; it ends the request, with a RuntimeError, only on the last
\* attempt.
C12_TransportRetried ==
  \A t \in TaskIds :
    tasks[t].last \in {"conn", "timeout"} =>
      /\ tasks[t].pc # "done" =>
           /\ tasks[t].at < tasks[t].retries
           /\ tasks[t].nap = Pow(BackoffFactor, tasks[t].at)
      /\ tasks[t].pc = "done" =>
           /\ tasks[t].at = tasks[t].retries
           /\ tasks[t].res.kind = "RuntimeError"

\* the owner of task t was cancelled while it awaited the task and the task
\* was suspended
OwnerCancelled(t) ==
  /\ tasks[t].res = Cancelled
  /\ \E c \in ReqCallers :
       caller[c].task = t /\ caller[c].owner /\ caller[c].cancelled

\* C14, what holds in every state: a registered handle is that of a pending
\* task or of a finished one whose owner has yet to run and pop it, so no
\* handle outlives its owner; a task whose owner was cancelled is finished,
\* and every caller that has left it, the owner and the coalesced ones, got a
\* failure.
C14_Safe ==
  /\ \A k \in RequestKeys :
       inflight[k] # NoTask =>
         /\ tasks[inflight[k]].pc # "none"
         /\ \E c \in ReqCallers :
              /\ caller[c].pc = "await"
              /\ caller[c].owner
              /\ caller[c].task = inflight[k]
  /\ \A t \in TaskIds :
       OwnerCancelled(t) =>
         /\ tasks[t].pc = "done"
         /\ \A c \in ReqCallers :
              (caller[c].task = t /\ caller[c].pc = "idle") =>
                caller[c].res.kind \notin {"none", "ok"}

\* C14: besides, once the owner of a task is cancelled while the task is
\* suspended, the handle leaves the registry and every caller awaiting the task
\* gets a CancelledError: none waits forever.
C14_Release ==
  /\ [](C14_Safe)
  /\ \A k \in RequestKeys :
       (inflight[k] # NoTask /\ OwnerCancelled(inflight[k]))
         ~> (inflight[k] = NoTask)
  /\ \A c \in CoordCallers :
       (caller[c].pc = "await" /\ OwnerCancelled(caller[c].task))
         ~> (caller[c].pc = "idle" /\ caller[c].res = Cancelled)

\* the owner was cancelled during the backoff sleep of its task; a coalesced
\* caller got the CancelledError, the handle is gone, and the owner has
\* started a fresh request of the same key
C14_Witness ==
  /\ caller["c2"].pc = "idle"
  /\ ~caller["c2"].owner
  /\ ~caller["c2"].cancelled
  /\ caller["c2"].res = Cancelled
  /\ tasks[caller["c2"].task].last = "conn"
  /\ caller["c1"].pc = "await"
  /\ caller["c1"].owner
  /\ caller["c1"].task # caller["c2"].task
  /\ inflight["rA"] = caller["c1"].task

\* C13: when the gather of the batch is over, the mapping holds exactly the
\* players whose fetch returned a payload, each with that payload; a player
\* whose fetch ended in a failure, a CancelledError included, is not in it.
C13_PartialSuccess ==
  Gathered =>
    \A i \in DOMAIN BatchIds :
      LET res == caller[BatchChildren[i]].res
      IN /\ (i \in DOMAIN BatchResults) <=> (res.kind = "ok")
         /\ (i \in DOMAIN BatchResults) => BatchResults[i] = res

\* C15: on both paths a task has debited one token for each network call it
\* has issued, and one more when its next call is out or about to go out: no
\* network call without its own token.
C15_TokenPerAttempt ==
  \A t \in TaskIds :
    tasks[t].pc # "none" =>
      /\ Units(tasks[t].nets) <= tasks[t].debited
      /\ tasks[t].pc = "network" => tasks[t].debited = Units(tasks[t].nets + 1)
      /\ tasks[t].pc # "network" => tasks[t].debited = Units(tasks[t].nets)

\* the second attempt of a full-URL request is out, two tokens debited, and
\* the bucket is empty
C15_Witness ==
  \E t \in TaskIds :
    /\ tasks[t].rk = FullUrl
    /\ tasks[t].pc = "network"
    /\ tasks[t].nets = 1
    /\ tasks[t].debited = Units(2)
    /\ tokens = 0

\* C16: with session_only no operation has read or written the database
\* file or failed on it, the rows an earlier run left in api_cache are as
\* they were, and a get that finds no live entry in memory is a miss.
C16_SessionOnly ==
  sessionOnly =>
    /\ store.io = "none"
    /\ store.ret # "OperationalError"
    /\ \A k \in CacheKeys :
         /\ db[k].present => db[k].data = JsonDumps("doc")
         /\ ~(mem[k].present /\ Live(mem[k])) => GetNow(k) = None

\* C17, in every state: a key deleted and not put since is in neither tier
\* (the durable tier being the one in use, that is, not session-only) and a
\* get of it is a miss.
C17_Gone ==
  \A k \in CacheKeys :
    lastPut[k].gone =>
      /\ ~mem[k].present
      /\ ~sessionOnly => ~db[k].present
      /\ GetNow(k) = None

\* C17: besides, the step that deletes a key leaves the entries of the other
\* keys as they are, in both tiers.
C17_Invalidate ==
  /\ [](C17_Gone)
  /\ [][\A k \in CacheKeys :
          (lastPut'[k].gone /\ ~lastPut[k].gone) =>
            \A j \in CacheKeys \ {k} : mem'[j] = mem[j] /\ db'[j] = db[j]]_vars

\* a key that both tiers held was deleted, with the durable tier in use, and
\* both tiers still hold the other key
C17_Witness ==
  /\ ~sessionOnly
  /\ lastPut["kA"].gone
  /\ ~db["kA"].present
  /\ mem["kB"].present
  /\ db["kB"].present
  /\ lastPut["kB"].valid

\* what a sweep makes of a tier: the entries whose age is beyond their TTL
\* are gone, every other entry is as it was, and nothing appears
SweptOf(before, after) ==
  \A k \in CacheKeys :
    /\ (before[k].present /\ ~Live(before[k])) => ~after[k].present
    /\ (before[k].present /\ Live(before[k])) => after[k] = before[k]
    /\ ~before[k].present => ~after[k].present

\* a get, a put or a delete of key k; the payload and the TTL of a put are
\* the ones it leaves in lastPut
KeyedCacheCall(k) ==
  \/ CacheGet(k)
  \/ /\ lastPut'[k].valid
     /\ lastPut'[k].data \in Payloads
     /\ lastPut'[k].T \in TTLArgs
     /\ CachePut(k, lastPut'[k].data, lastPut'[k].T)
  \/ CacheDelete(k)

\* C18: clear_expired removes from the memory tier and, unless session-only,
\* from the durable tier exactly the entries whose age is beyond their TTL,
\* and leaves the live ones with their payload, creation time and TTL; a get,
\* put or delete of one key sweeps nothing: the other keys' entries, expired
\* ones included, stay as they are (older by the time the call took, if any).
C18_Sweep ==
  /\ [][CacheClearExpired =>
          /\ SweptOf(mem, mem')
          /\ ~sessionOnly => SweptOf(db, db')]_vars
  /\ [][\A k \in TierKeys :
          KeyedCacheCall(k) =>
            \E d \in {0, 1} :
              \A j \in CacheKeys \ {k} :
                mem'[j] = Aged(mem, d)[j] /\ db'[j] = Aged(db, d)[j]]_vars

\* a sweep took the expired entry of one key out of both tiers and left the
\* live entry of the other key in both
C18_Witness ==
  /\ ~sessionOnly
  /\ lastPut["kA"].valid
  /\ lastPut["kA"].swept
  /\ ~mem["kA"].present
  /\ ~db["kA"].present
  /\ lastPut["kB"].valid
  /\ ~lastPut["kB"].swept
  /\ mem["kB"].present /\ Live(mem["kB"])
  /\ db["kB"].present /\ Live(db["kB"])

\* what the claim says of a get of key k, case by case
GetAsClaimed(k) ==
  IF mem[k].present /\ Live(mem[k])
  THEN \* memory first: the durable tier has no say
       /\ GetNow(k) = mem[k].data
       /\ mem' = mem
       /\ db' = db
  ELSE IF sessionOnly \/ ~db[k].present
  THEN \* an expired memory entry is evicted; nothing durable to fall to
       /\ GetNow(k) = None
       /\ ~mem'[k].present
       /\ db' = db
  ELSE IF ~Live(db[k])
  THEN \* the expired durable row is evicted as well
       /\ GetNow(k) = None
       /\ ~mem'[k].present
       /\ ~db'[k].present
  ELSE \* the live durable row is returned and promoted with its own age
       \* and TTL, and memory alone serves the next get
       /\ GetNow(k) = JsonLoads(db[k].data)
       /\ db' = db
       /\ mem'[k] = Entry(GetNow(k), db[k].age, db[k].ttl)
       /\ GetCachedResponse(mem', EmptyTier, sessionOnly, k).val = GetNow(k)

\* C19: a get answers from a live memory entry without looking further;
\* it evicts an expired memory entry and falls through to the durable tier
\* unless session-only; an expired durable row is evicted and the get
\* misses; a live durable row is returned and promoted into memory, which
\* then serves the next get. Entries of other keys are not touched.
C19_Lookup ==
  [][\A k \in CacheKeys :
       CacheGet(k) =>
         /\ GetAsClaimed(k)
         /\ \A j \in CacheKeys \ {k} : mem'[j] = mem[j] /\ db'[j] = db[j]]_vars

\* memory holds, for a key never put, the document of a live durable row:
\* a get promoted it
C19_Witness ==
  \E k \in CacheKeys :
    /\ ~sessionOnly
    /\ ~lastPut[k].valid
    /\ db[k].present /\ Live(db[k])
    /\ mem[k].present /\ Live(mem[k])
    /\ mem[k].data = JsonLoads(db[k].data)
    /\ GetNow(k) = mem[k].data

\* C20: a facade fetch that has ended has returned a payload or failed with
\* the RuntimeError of the retry loop: nothing else reaches its caller.
C20_ClassifiedOnly ==
  \A c \in FacadeCallers :
    (caller[c].pc = "idle" /\ caller[c].op # None /\ caller[c].res # NoRes) =>
      caller[c].res.kind \in {"ok", "RuntimeError"}

\* the TokenBucket objects created so far
Made == {b \in BucketIds : buckets[b].made}

\* C21, in every state: there are at most as many buckets as resets plus one;
\* until the first reset every user of the limiter holds the one global
\* bucket and every debit is a debit of that bucket.
C21_Shared ==
  /\ Cardinality(Made) <= resets + 1
  /\ globalBucket # Unmade => globalBucket \in Made
  /\ \A c \in LimiterUsers : clients[c] # NoLimiter => clients[c].bucket \in Made
  /\ resets = 0 =>
       /\ \A c \in LimiterUsers : clients[c] # NoLimiter => clients[c].bucket = globalBucket
       /\ \A b \in BucketIds : buckets[b].debits > 0 => b = globalBucket

\* C21: every APIClient of the process debits one TokenBucket, made at the
\* first get_global_rate_limiter; a later call returns that bucket whatever
\* capacity and period it passes and leaves the bucket's capacity and period
\* as they are; only reset_global_rate_limiter lets another bucket be made.
C21_OneBucket ==
  /\ [](C21_Shared)
  /\ [][\A c \in LimiterUsers, a \in LimiterArgs :
          (LimiterGet(c, a) /\ globalBucket # Unmade) =>
            /\ clients'[c].bucket = globalBucket
            /\ globalBucket' = globalBucket
            /\ buckets' = buckets]_vars
  /\ [][\A b \in Made :
          /\ buckets'[b].made
          /\ buckets'[b].capacity = buckets[b].capacity
          /\ buckets'[b].period = buckets[b].period]_vars

\* without a reset, two clients and a caller that passed another capacity
\* and period hold the same bucket, which both clients have debited
C21_Witness ==
  /\ resets = 0
  /\ clients["direct"].args \in LimiterArgs \ {ConfigArgs}
  /\ clients["direct"].bucket = clients["client1"].bucket
  /\ clients["client2"].bucket = clients["client1"].bucket
  /\ clients["client1"].bucket # Unmade
  /\ buckets[clients["client1"].bucket].debits >= 2
  /\ buckets[clients["client1"].bucket].capacity = Capacity

\* the two calls have the same method and endpoint and parameter mappings
\* with the same name/value pairs
SameRequest(a, b) ==
  /\ a.method = b.method
  /\ a.endpoint = b.endpoint
  /\ a.params.isNone = b.params.isNone
  /\ {a.params.items[i] : i \in DOMAIN a.params.items}
       = {b.params.items[i] : i \in DOMAIN b.params.items}

\* C22: two requests with the same method, endpoint and name/value pairs have
\* the same request key in whatever order the pairs were inserted, and when
\* both are in flight at once one task serves both.
C22_OrderIndependent ==
  \A a, b \in KeyCallers :
    (a # b /\ keyCalls[a].pc # "new" /\ keyCalls[b].pc # "new"
       /\ SameRequest(keyCalls[a], keyCalls[b])) =>
      /\ keyCalls[a].key = keyCalls[b].key
      /\ (keyCalls[a].pc # "done" /\ keyCalls[b].pc # "done") => keyTasks = 1

\* two requests in flight with the same pairs inserted in different orders
C22_Witness ==
  /\ SameRequest(keyCalls["k1"], keyCalls["k2"])
  /\ Len(keyCalls["k1"].params.items) >= 2
  /\ keyCalls["k1"].params.items # keyCalls["k2"].params.items
  /\ keyCalls["k1"].pc = "owner"
  /\ keyCalls["k2"].pc = "waiter"
  /\ keyTasks = 1

\* C23, in every state: a call that returned True has debited exactly its n
\* tokens; a call that returned False was given a timeout and has debited
\* nothing; a call still waiting has debited nothing.
C23_Debited ==
  \A c \in AcqCallers :
    /\ acq[c].ret = "True" => acq[c].debited = Units(acq[c].n)
    /\ acq[c].ret = "False" => acq[c].debited = 0 /\ acq[c].timeout # NoTimeout
    /\ acq[c].pc \in {"try", "sleep"} => acq[c].debited = 0

\* C23: acquire(n, timeout) returns True iff it debited exactly n tokens; a
\* refill-and-debit step that finds fewer than n tokens takes nothing from
\* the refilled bucket and either returns False, which it does only when
\* more than the timeout has elapsed since the call, or sleeps the polling
\* interval, after which, and not before, the step is repeated; without a
\* timeout the call never returns False.
C23_Outcome ==
  /\ [](C23_Debited)
  /\ [][\A c \in AcqCallers :
          AcquireStep(c) =>
            /\ acq'[c].ret = "True" <=> Refill(tokens, age) >= Units(acq[c].n)
            /\ acq'[c].ret # "True" => tokens' = Refill(tokens, age)
            /\ acq'[c].ret = "False" => acq[c].waited > acq[c].timeout
            /\ acq'[c].ret = None =>
                 acq'[c].pc = "sleep" /\ acq'[c].sleepLeft = PollTicks]_vars
  /\ [][\A c \in AcqCallers :
          (acq[c].pc = "sleep" /\ acq'[c].pc # "sleep") =>
            acq[c].sleepLeft = 0 /\ acq'[c].pc = "try"]_vars

\* a call with a timeout returned False after waiting, having taken nothing,
\* while the other call took the whole capacity
C23_Witness ==
  /\ acq["a1"].ret = "False"
  /\ acq["a1"].n > 0
  /\ acq["a2"].ret = "True"
  /\ acq["a2"].n = Capacity
  /\ acq["a2"].debited = CapUnits

\* the TTL configured for a facade operation
ConfiguredTTL(op) ==
  CASE op = "members" -> MembersTTL
    [] op = "attacks" -> AttacksTTL
    [] op = "bars" -> BarsTTL
    [] OTHER -> DefaultTTL

\* caller c has returned a payload that it got from the network, and no more
\* than the operation's TTL has passed since it cached it
FetchedWithinTTL(c) ==
  /\ caller[c].pc = "idle"
  /\ caller[c].op # None
  /\ caller[c].res.kind = "ok"
  /\ caller[c].task # NoTask
  /\ lastPut[CacheKeyOf(caller[c].op)].valid
  /\ lastPut[CacheKeyOf(caller[c].op)].since <= ConfiguredTTL(caller[c].op)

\* the cache holds the payload that caller c returned, under the key of its
\* operation and with the operation's TTL
Populated(c) ==
  LET k == CacheKeyOf(caller[c].op)
  IN /\ mem[k].present
     /\ mem[k].data = caller[c].res.data
     /\ mem[k].ttl = ConfiguredTTL(caller[c].op)
     /\ Live(mem[k])
     /\ ~sessionOnly =>
          /\ db[k].present
          /\ db[k].data = JsonDumps(caller[c].res.data)
          /\ db[k].ttl = ConfiguredTTL(caller[c].op)
     /\ GetNow(k) = caller[c].res.data

\* C24: once a facade operation has returned a payload obtained from the
\* network, the cache holds the payload under the operation's key with the
\* operation's TTL, and until the TTL has passed a repeat of the operation is
\* served from the cache: it would take the cached value and not go on to
\* the network.
C24_Population ==
  \A c \in TtlCallers :
    FetchedWithinTTL(c) =>
      /\ Populated(c)
      /\ Truthy(GetNow(CacheKeyOf(caller[c].op)))

\* the population alone, which the code does as claimed
C24_PopulatedOnly == \A c \in TtlCallers : FetchedWithinTTL(c) => Populated(c)

\* the call of c ends in this step, and in a failure
EndsInFailure(c) ==
  /\ caller'[c] # caller[c]
  /\ caller'[c].pc = "idle"
  /\ caller'[c].op # None
  /\ caller'[c].res.kind \notin {"none", "ok"}

\* the entry of a key in a tier is after the step what it was before, or it
\* was expired and the lookup of the operation evicted it
KeptOrEvicted(before, after) ==
  \/ after = before
  \/ before.present /\ ~Live(before) /\ after = NoEntry

\* C25: the step in which a facade call ends in a failure (retries
\* exhausted, an exception raised as it is, cancellation), be it the call of
\* the owner or of a coalesced waiter, creates and overwrites no entry of
\* either tier: the cache is as it was.
C25_NoWriteOnFailure ==
  [][\A c \in ReqCallers :
       EndsInFailure(c) =>
         /\ \A k \in CacheKeys :
              KeptOrEvicted(mem[k], mem'[k]) /\ KeptOrEvicted(db[k], db'[k])
         /\ lastPut' = lastPut]_vars

\* owner and coalesced waiter have both ended in the RuntimeError of the
\* exhausted retries, and the cache holds what it held before
C25_Witness ==
  /\ caller["c1"].pc = "idle" /\ caller["c2"].pc = "idle"
  /\ caller["c1"].task = caller["c2"].task
  /\ caller["c1"].task # NoTask
  /\ caller["c1"].owner # caller["c2"].owner
  /\ caller["c1"].res.kind = "RuntimeError"
  /\ caller["c2"].res = caller["c1"].res
  /\ ~sessionOnly
  /\ mem[CacheKeyOf(FailOp)].present
  /\ mem[CacheKeyOf(FailOp)].data = "{}"
  /\ db[CacheKeyOf(FailOp)].present
  /\ ~lastPut[CacheKeyOf(FailOp)].valid

\* what get_key(u) returns when called now
GetKeyNow(u) == GetKey(apiKeys, u).ret

\* the last set_key of the user has not expired and was not cleared
Unexpired(u) == keySets[u].set /\ ~keySets[u].cleared /\ keySets[u].since < KeyTTL

\* C26: whatever set_key, get_key, clear_key and expiry timers did, get_key
\* returns a key only before the expiry time of the set_key that stored it,
\* and what it returns is the key and the key type of the user's most recent
\* set_key; it does return them as long as that entry is unexpired and was
\* not cleared.
C26_Expiry ==
  \A u \in Users :
    /\ GetKeyNow(u) # Nothing =>
         /\ keySets[u].set
         /\ keySets[u].since < KeyTTL
         /\ GetKeyNow(u) = <<keySets[u].api_key, keySets[u].key_type>>
    /\ Unexpired(u) => GetKeyNow(u) = <<keySets[u].api_key, keySets[u].key_type>>

\* an entry is past its expiry and still in the store, its timer not having
\* run yet, and get_key does not return it; the other user's later key is
\* returned
C26_Witness ==
  \E u, v \in Users :
    /\ apiKeys[u].present
    /\ keySets[u].since >= KeyTTL
    /\ GetKeyNow(u) = Nothing
    /\ v # u
    /\ GetKeyNow(v) = <<"keyB", "full">>

\* C27, in every state: after clear_key(u) and until the next set_key(u) the
\* store has no entry of u and get_key(u) returns None, whatever timers of
\* earlier set_key calls are pending.
C27_Cleared ==
  \A u \in Users :
    keySets[u].cleared => ~apiKeys[u].present /\ GetKeyNow(u) = Nothing

\* C27: besides, clear_key(u) leaves the entries of the other users as they
\* are.
C27_Forget ==
  /\ [](C27_Cleared)
  /\ [][\A u \in Users :
          KeyClear(u) => \A v \in Users \ {u} : apiKeys'[v] = apiKeys[v]]_vars

\* a user's unexpired key was cleared while the timer of its set_key is
\* pending, and the other user still gets its key
C27_Witness ==
  /\ keySets["u1"].cleared
  /\ keySets["u1"].since < KeyTTL
  /\ \E t \in TimerIds : expiries[t].pc = "sleep" /\ expiries[t].user = "u1"
  /\ GetKeyNow("u2") # Nothing

\* C28, in every state: a request has made at most retries + 1 network
\* calls, retries being the bound of its loop; a request at its end has a
\* payload or a failure for its caller; and a 429 takes a slot as the other
\* retried answers do: the attempt after it is numbered one higher, and a 429
\* on the last attempt ends the request with the exhausted-retries failure.
C28_Bounded ==
  \A t \in TaskIds :
    /\ tasks[t].nets <= tasks[t].retries + 1
    /\ Pending(tasks[t]) => tasks[t].attempt <= tasks[t].retries
    /\ tasks[t].pc = "done" =>
         tasks[t].res.kind \in {"ok", "RuntimeError", "TimeoutError"}
    /\ tasks[t].last = "429" =>
         /\ tasks[t].pc \in {"acquire", "network"} =>
              tasks[t].attempt = tasks[t].at + 1
         /\ tasks[t].pc = "done" =>
              /\ tasks[t].at = tasks[t].retries
              /\ tasks[t].nets = tasks[t].retries + 1
              /\ tasks[t].res = Fail("RuntimeError", "max retries exceeded")

\* C28: whatever the answers of the attempts are (429, 5xx, transport
\* failure, 4xx, 2xx), a request whose bucket refills and whose network calls
\* return reaches its end, payload or failure, within retries + 1 network
\* calls, a 429 counted as an attempt like the others.
C28_Terminates ==
  /\ [](C28_Bounded)
  /\ \A t \in TaskIds : Pending(tasks[t]) ~> (tasks[t].pc = "done")

\* a request of the default bound ended after HTTP_RETRIES + 1 network calls
\* that were not all transport failures, the last of them a 429
C28_Witness ==
  \E t \in TaskIds :
    /\ tasks[t].pc = "done"
    /\ tasks[t].retries = HTTP_RETRIES
    /\ tasks[t].nets = HTTP_RETRIES + 1
    /\ tasks[t].last = "429"
    /\ ~tasks[t].onlyConn
    /\ tasks[t].res = Fail("RuntimeError", "max retries exceeded")

\* a handle of the key is registered and its task has ended
CompletedHandle(k) == inflight[k] # NoTask /\ tasks[inflight[k]].pc = "done"

\* C29, in every step: a caller that enters _make_request does not find in
\* the registry the handle of a request that has already completed, the
\* handle being removed at the moment the request completes.
C29_Registry ==
  [][\A c \in CoordCallers, k \in CoordKeys, arg \in CoordRetries :
       MakeRequest(c, k, arg) => ~CompletedHandle(k)]_vars

\* the callers suspended in a fetch_faction_reports_v1 that found no live
\* entry
AwaitingReports ==
  {c \in ReportCallers : caller[c].pc = "await" /\ caller[c].op = "reports"}

\* C30, in every state: the callers suspended in concurrent calls of
\* fetch_faction_reports_v1 with the same arguments await one and the same
\* sequence of network calls, the first caller's.
C30_OneSequence ==
  \A c, o \in AwaitingReports : caller[c].task = caller[o].task

\* a step in which set_key is called for user u
SetKeyCall(u) == \E k \in ApiKeyValues, ty \in KeyTypes : KeySet(u, k, ty)

\* C31: once set_key is called no more for a user, the user's entry leaves
\* the store for good, whether get_key and clear_key are called or not: the
\* timer of the last set_key removes it when its ttl is over.
C31_Expires ==
  \A u \in Users : <>[][~SetKeyCall(u)]_vars => <>[](~apiKeys[u].present)

\* the entry of a user is past its ttl, still in the store, and the timer of
\* its set_key has slept to its end and is about to run
C31_Witness ==
  \E u \in Users, t \in TimerIds :
    /\ apiKeys[u].present
    /\ apiKeys[u].left = 0
    /\ keySets[u].since >= KeyTTL
    /\ ~keySets[u].cleared
    /\ expiries[t].pc = "sleep"
    /\ expiries[t].user = u
    /\ expiries[t].sleepLeft = 0

\* C32, in every step: when a timer fires, the entry of its user stays as it
\* is unless the ttl of the set_key that stored that entry has gone by, and
\* the entries of the other users stay as they are; so the timer of an
\* earlier set_key leaves a newer entry in place.
C32_StaleTimer ==
  [][\A t \in TimerIds :
       ExpireFire(t) =>
         \A u \in Users :
           apiKeys'[u] # apiKeys[u] =>
             /\ u = expiries[t].user
             /\ keySets[u].since >= KeyTTL
             /\ apiKeys[u].left = 0]_vars

\* the timer of an earlier set_key of a user has slept to its end while the
\* entry of the user's later set_key is unexpired, the later timer pending
C32_Witness ==
  \E u \in Users, t, n \in TimerIds :
    /\ t # n
    /\ expiries[t].pc = "sleep" /\ expiries[t].user = u /\ expiries[t].sleepLeft = 0
    /\ expiries[n].pc # "none" /\ expiries[n].user = u /\ expiries[n].left > 0
    /\ apiKeys[u].present
    /\ apiKeys[u].left > 0
    /\ keySets[u].since < KeyTTL

\* the entry is no younger than the last put of its key and has its TTL
AsOldAsItsPut(e, k) ==
  e.present => e.age >= lastPut[k].since /\ e.ttl = TtlOrDefault(lastPut[k].T)

\* C33, in every state: an entry of either tier, promoted or not, is at least
\* as old as the put that stored its payload and keeps that put's TTL, so a
\* get returns a payload no later than the TTL after the put.
C33_NoExtension ==
  \A k \in CacheKeys :
    lastPut[k].valid =>
      /\ AsOldAsItsPut(mem[k], k)
      /\ AsOldAsItsPut(db[k], k)
      /\ GetNow(k) # None => lastPut[k].since <= TtlOrDefault(lastPut[k].T)

\* C33: besides, a get that puts an entry into the memory tier gives it the
\* age and the TTL of the durable row.
C33_Promotion ==
  /\ [](C33_NoExtension)
  /\ [][\A k \in TierKeys :
          (CacheGet(k) /\ mem'[k].present /\ mem'[k] # mem[k]) =>
            mem'[k].age = db[k].age /\ mem'[k].ttl = db[k].ttl]_vars

\* the memory tier holds the promoted durable row of a put (the document as
\* parsed from the row), at the last tick of its TTL, and a get returns it
C33_Witness ==
  \E k \in TierKeys :
    /\ lastPut[k].valid
    /\ lastPut[k].data = "pydict"
    /\ lastPut[k].since = TtlOrDefault(lastPut[k].T)
    /\ lastPut[k].since > 0
    /\ mem[k].present
    /\ db[k].present
    /\ mem[k].age = db[k].age
    /\ mem[k].data = JsonLoads(db[k].data)
    /\ mem[k].data # "pydict"
    /\ GetNow(k) = mem[k].data

\* C34, in every state of a cache that is not session-only: a key with an
\* entry in the memory tier has a row in the durable tier, the row holds the
\* serialised payload of the entry and the same TTL.
C34_Coherent ==
  ~sessionOnly =>
    \A k \in CacheKeys :
      mem[k].present =>
        /\ db[k].present
        /\ db[k].data = JsonDumps(mem[k].data)
        /\ db[k].ttl = mem[k].ttl

\* one key has a promoted entry in memory over its row, the other key was put
\* and has its row only, the memory entry having expired before the row
C34_Witness ==
  /\ ~sessionOnly
  /\ \E k, j \in TierKeys :
       /\ mem[k].present /\ db[k].present
       /\ mem[k].data = "jsdict"
       /\ lastPut[j].valid
       /\ ~mem[j].present
       /\ db[j].present

\* C35, in every state: the payload that fetch_faction_attacks(limit)
\* returned, from the cache or from the network, is the answer of the
\* endpoint of that limit.
C35_OwnRequest ==
  \A c \in ReqCallers :
    (caller[c].pc = "idle" /\ caller[c].op \in AttackOps /\ caller[c].res.kind = "ok") =>
      caller[c].res.data = DocOf(RequestKeyOf(caller[c].op))

\* C36, in every state: the payload that fetch_user_stats returned to the
\* caller of a client is the answer to a request that carried the key of
\* that client, whatever the client of the other key has cached or has in
\* flight.
C36_OwnCredential ==
  \A c \in CredCallers :
    (caller[c].pc = "idle" /\ caller[c].op = "user_stats" /\ caller[c].res.kind = "ok") =>
      caller[c].res.data = StatsOf(ApiKeyOf(c))

\* C37, in every state: the owner of a request, not cancelled itself, does
\* not end with a CancelledError, whichever of the callers coalesced onto
\* its handle were cancelled: it gets the result of its network calls.
C37_WaiterOnly ==
  \A c \in CoordCallers :
    (caller[c].pc = "idle" /\ caller[c].owner /\ ~caller[c].cancelled) =>
      caller[c].res # Cancelled

\* the request of task t has got its payload from the network
GotPayload(t) == tasks[t].pc = "done" /\ tasks[t].res.kind = "ok"

\* the request of task t has its payload and its handle is registered: the
\* owner has yet to run, pop the handle and put the payload into the cache
InWindow(t) == GotPayload(t) /\ inflight[RequestKeyOf(FailOp)] = t

\* the cache holds the payload of task t, put at this moment
JustCached(t) ==
  /\ mem'[CacheKeyOf(FailOp)] = Entry(tasks[t].res.data, 0, DefaultTTL)
  /\ lastPut'[CacheKeyOf(FailOp)].valid
  /\ lastPut'[CacheKeyOf(FailOp)].data = tasks[t].res.data
  /\ lastPut'[CacheKeyOf(FailOp)].since = 0

\* C38, in every step: the step that takes the handle of a request with its
\* payload out of the registry puts the payload into the cache, so that at
\* every scheduling point the handle is registered or the payload has been
\* put.
C38_NoGap ==
  [][\A t \in TaskIds :
       (InWindow(t) /\ inflight'[RequestKeyOf(FailOp)] # t) => JustCached(t)]_vars

\* C38: besides, a caller that enters fetch_player_stats while the request of
\* the operation has its payload and its handle starts no request of its
\* own: no task is created for it, and it is not left waiting.
C38_NoDuplicate ==
  /\ C38_NoGap
  /\ [][\A c \in FailCallers :
          (OnlyFetch(c) /\ \E t \in TaskIds : InWindow(t)) =>
            /\ \A u \in TaskIds : tasks'[u].pc = "acquire" => tasks[u].pc = "acquire"
            /\ caller'[c].pc = "idle"
            /\ caller'[c].res.kind = "ok"]_vars

\* the request has its payload, its owner has not run yet, and the other
\* caller has entered, found the handle and returned with the payload
C38_Witness ==
  \E c, o \in FailCallers, t \in TaskIds :
    /\ InWindow(t)
    /\ caller[o].pc = "await" /\ caller[o].owner /\ caller[o].task = t
    /\ caller[c].pc = "idle" /\ caller[c].op = FailOp /\ caller[c].task = t
    /\ caller[c].res = tasks[t].res

\* the call of c is in progress and asks for more than the capacity
AsksTooMuch(c) == acq[c].pc # "idle" /\ acq[c].n > Capacity
\* some caller enters acquire in this step
SomeAcquireCall == \E c \in AcqCallers, n \in TokenArgs : AcquireForever(c, n)

\* C39, n <= capacity: once no further calls are made, every call of
\* acquire(n, timeout=None) with n <= capacity has eventually returned True.
C39_Served ==
  <>[][~SomeAcquireCall]_vars =>
    <>[](\A c \in AcqCallers :
           acq[c].n <= Capacity => acq[c].pc = "idle" /\ acq[c].ret # "False")

\* C39, n > capacity: the call never returns, none of its steps debits the
\* bucket, tokens stay at most the capacity, and it goes on polling: it
\* sleeps again and again and tries again and again.
C39_NeverServed ==
  /\ [](tokens <= CapUnits)
  /\ [][\A c \in AcqCallers :
          AsksTooMuch(c) =>
            /\ AsksTooMuch(c)'
            /\ acq'[c].debited = 0
            /\ AcquireStep(c) => tokens' = Refill(tokens, age) /\ budget' = budget]_vars
  /\ \A c \in AcqCallers :
       /\ AsksTooMuch(c) ~> (AsksTooMuch(c) /\ acq[c].pc = "sleep")
       /\ AsksTooMuch(c) ~> (AsksTooMuch(c) /\ acq[c].pc = "try" /\ acq[c].slept)

C40_ErrorNotCached ==
  /\ mem[CacheKeyOf("members")].present => ~HasApiError(mem[CacheKeyOf("members")].data)
  /\ (caller["c1"].pc = "idle" /\ caller["c1"].op = "members"
        /\ caller["c1"].res.kind = "ok" /\ HasApiError(caller["c1"].res.data))
       => caller["c1"].task # NoTask
====
